---- MODULE Spec2Model ----
(***************************************************************************)
(* A model of tinywgpu's asset-readiness and GPU-resource-lifecycle core:  *)
(* PipelineManager, ForwardRenderer.render, RenderSystem.renderFrame,      *)
(* ShaderAsset / AssetManager on the JavaScript event loop, and            *)
(* FallbackManager / ShaderModuleManager.                                  *)
(*                                                                         *)
(* Each subsystem has its own specification over the shared variables:     *)
(*   Spec          PipelineManager driven through its public API           *)
(*   SpecRender    renderFrame / ForwardRenderer.render over the caches    *)
(*   SpecAsset     ShaderAsset.load and AssetManager.ensureReady as        *)
(*                 coroutines on the event loop (FairSpecAsset adds the    *)
(*                 event loop's fairness)                                  *)
(*   SpecFallback  FallbackManager over the shared ShaderModuleManager     *)
(*   SpecPrepare   the start-up prepare over the assets being loaded       *)
(*   SpecRegistry  AssetManager.register / get                             *)
(*   SpecShader    ShaderManager.loadShader and its caches                 *)
(*   SpecRenderers RenderSystem.registerRenderer                           *)
(*   SpecScene     Scene and SceneManager: camera sets, getRenderCameras   *)
(*   SpecEngine    Engine.start / stop / _tick over the animation frames   *)
(*   SpecReentrant SpecEngine with scene updates that call start / stop    *)
(***************************************************************************)
EXTENDS Integers, Sequences, FiniteSets, TLC

\* ------------------------------------------------------------------ bounds
MaxBuilds == 3
MaxPipelines == 3
MaxCalls == 3

VARIABLES
    \* PipelineManager
    pipelines,          \* PipelineManager.pipelines: key -> pipeline object
    pendingPipelines,   \* PipelineManager.pendingPipelines: key -> promise
    builds,             \* the promises of the async builds, in creation order
    created,            \* device.createRenderPipeline calls made so far
    calls,              \* history of the calls made through the public API
    \* ForwardRenderer, RenderSystem
    uniformBuffer,      \* ForwardRenderer._uniformBuffer, per renderer
    buffers,            \* bufferManager.createUniformBuffer calls made so far
    frame,              \* what the last renderFrame call did
    catchers,           \* the build promises render has attached a .catch to
    \* ShaderAsset, AssetManager and the event loop
    state,              \* IAsset.state, per asset
    error,              \* IAsset.error, per asset
    sourceCode,         \* ShaderAsset.sourceCode, per asset
    procs,              \* the async calls made so far, each with its position
    microtasks,         \* the event loop's microtask queue (ids of procs)
    spin,               \* flips at every turn of a waitForCompletion loop
    \* FallbackManager, ShaderModuleManager
    modules,            \* ShaderModuleManager.modules: handle id -> module
    moduleCount,        \* device.createShaderModule calls made so far
    fallbackShaderHandles, \* FallbackManager.fallbackShaderHandles
    fallbackShaderCount,   \* FallbackManager.fallbackShaderCount
    realIds,            \* the handle ids real shaders were stored under
    fb,                 \* the last getFallbackResource call and its result
    nf,                 \* the last needsFallback call: argument and result
    \* AssetManager's registry
    assets,             \* AssetManager.assets: id -> the instance stored
    registerLog,        \* the register calls so far: argument and return value
    \* ShaderManager
    shaderCache,        \* ShaderManager.shaderCache: cache key -> module
    shaderCodeCache,    \* the keys of ShaderManager.shaderCodeCache
    shaderLoads,        \* the loadShader calls so far, each with its position
    shaderModulesMade,  \* per module created by loadShader, its cache key
    \* RenderSystem's renderer list
    renderers,          \* RenderSystem.renderers
    \* Scene, SceneManager and the cameras
    sceneCameras,       \* Scene._cameras, per scene, in insertion order
    scenes,             \* SceneManager.scenes, in insertion order
    enabled,            \* ICamera.enabled, per camera
    order,              \* ICamera.order, per camera
    addThrew,           \* whether the last addCamera call threw
    \* Engine and the browser's animation frames
    isRunning,          \* Engine._isRunning
    animationFrameId,   \* Engine._animationFrameId
    rafPending,         \* the requestAnimationFrame callbacks not yet run
    tickLog             \* what the last _tick call did, in order

pmVars == <<pipelines, pendingPipelines, builds, created, calls>>
renderVars == <<uniformBuffer, buffers, frame, catchers>>
assetVars == <<state, error, sourceCode, procs, microtasks, spin>>
fallbackVars == <<modules, moduleCount, fallbackShaderHandles, fallbackShaderCount,
                 realIds, fb, nf>>
registryVars == <<assets, registerLog>>
shaderVars == <<shaderCache, shaderCodeCache, shaderLoads, shaderModulesMade>>
rendererVars == <<renderers>>
sceneVars == <<sceneCameras, scenes, enabled, order, addThrew>>
engineVars == <<isRunning, animationFrameId, rafPending, tickLog>>
vars ==
    <<pmVars, renderVars, assetVars, fallbackVars, registryVars,
      shaderVars, rendererVars, sceneVars, engineVars>>
\* What the actions of one subsystem leave alone.
notPM ==
    <<renderVars, assetVars, fallbackVars, registryVars, shaderVars,
      rendererVars, sceneVars, engineVars>>
notRender ==
    <<assetVars, fallbackVars, registryVars, shaderVars, rendererVars,
      sceneVars, engineVars>>
notAsset ==
    <<pmVars, renderVars, fallbackVars, registryVars, shaderVars,
      rendererVars, sceneVars, engineVars>>
notFallback ==
    <<pmVars, renderVars, assetVars, registryVars, shaderVars,
      rendererVars, sceneVars, engineVars>>
notRegistry ==
    <<pmVars, renderVars, assetVars, fallbackVars, shaderVars,
      rendererVars, sceneVars, engineVars>>
notShader ==
    <<pmVars, renderVars, assetVars, fallbackVars, registryVars,
      rendererVars, sceneVars, engineVars>>
notRenderers ==
    <<pmVars, renderVars, assetVars, fallbackVars, registryVars,
      shaderVars, sceneVars, engineVars>>
notScene ==
    <<pmVars, renderVars, assetVars, fallbackVars, registryVars,
      shaderVars, rendererVars, engineVars>>
notEngine ==
    <<assetVars, fallbackVars, registryVars, shaderVars, rendererVars>>

\* ------------------------------------------------------- PipelineManager

\* navigator.gpu.getPreferredCanvasFormat(): one fixed value per platform.
PreferredFormat == "bgra8unorm"

\* ForwardRenderer.render: const pipelineKey = `basic_${format}`
PipelineKey(format) == "basic_" \o format

\* The keys the model passes to PipelineManager: the renderer's and one other.
Keys == {PipelineKey(PreferredFormat), "custom"}

\* get() returns null for an absent key; pipeline objects are 1, 2, ...
NoPipeline == 0
\* pendingPipelines has no entry for the key; promises are 1, 2, ...
NoPromise == 0

\* The manager's state as one value, for the operators below.
PM == [pipelines |-> pipelines, pendingPipelines |-> pendingPipelines,
       builds |-> builds, created |-> created]

\* The builds of `key` whose async body has neither returned nor thrown.
Running(s, key) ==
    {b \in DOMAIN s.builds : s.builds[b].key = key /\ s.builds[b].status = "pending"}

\* has(key)
Has(s, key) ==
    s.pipelines[key] # NoPipeline \/ s.pendingPipelines[key] # NoPromise

\* get(key)
Get(s, key) == s.pipelines[key]

\* getOrCreateAsync without the pendingPipelines lookup.
GetOrCreateAsync_NoPendingCheck(s, key) ==
    IF s.pipelines[key] # NoPipeline
    THEN [s |-> s, pipeline |-> s.pipelines[key], promise |-> NoPromise, started |-> FALSE]
    ELSE LET b == Len(s.builds) + 1 IN
         [s |-> [s EXCEPT !.builds = Append(@, [key |-> key, status |-> "pending",
                                                   value |-> NoPipeline]),
                          !.pendingPipelines[key] = b],
          pipeline |-> NoPipeline, promise |-> b, started |-> TRUE]

\* getOrCreateAsync(key, descriptor), up to the point where it returns: the
\* async body runs synchronously up to `await descriptor()`, so the builder is
\* invoked (started) before the promise is registered and returned.
GetOrCreateAsync(s, key) ==
    IF s.pipelines[key] # NoPipeline
    THEN [s |-> s, pipeline |-> s.pipelines[key], promise |-> NoPromise, started |-> FALSE]
    ELSE IF s.pendingPipelines[key] # NoPromise
    THEN [s |-> s, pipeline |-> NoPipeline, promise |-> s.pendingPipelines[key],
          started |-> FALSE]
    ELSE LET b == Len(s.builds) + 1 IN
         [s |-> [s EXCEPT !.builds = Append(@, [key |-> key, status |-> "pending",
                                                   value |-> NoPipeline]),
                          !.pendingPipelines[key] = b],
          pipeline |-> NoPipeline, promise |-> b, started |-> TRUE]

\* The continuation of the async body after `await descriptor()` resolved:
\* createRenderPipeline, pipelines.set, pendingPipelines.delete, return.
BuildReturns(s, b) ==
    LET key == s.builds[b].key
        p == s.created + 1 IN
    [s EXCEPT !.created = p,
              !.pipelines[key] = p,
              !.pendingPipelines[key] = NoPromise,
              !.builds[b] = [@ EXCEPT !.status = "fulfilled", !.value = p]]

\* The async body left by an exception: descriptor() rejected (line 54) or
\* createRenderPipeline threw (line 55). Neither map is touched.
BuildThrows(s, b) ==
    [s EXCEPT !.builds[b] = [@ EXCEPT !.status = "rejected"]]

\* getOrCreate that builds whatever is cached.
GetOrCreate_AlwaysBuilds(s, key) ==
    LET p == s.created + 1 IN
    [s |-> [s EXCEPT !.created = p, !.pipelines[key] = p],
     pipeline |-> p, started |-> TRUE]
\* getOrCreate(key, descriptor): the synchronous path.
GetOrCreate(s, key) ==
    IF s.pipelines[key] # NoPipeline
    THEN [s |-> s, pipeline |-> s.pipelines[key], started |-> FALSE]
    ELSE LET p == s.created + 1 IN
         [s |-> [s EXCEPT !.created = p, !.pipelines[key] = p],
          pipeline |-> p, started |-> TRUE]

\* remove(key)
Remove(s, key) ==
    [s EXCEPT !.pendingPipelines[key] = NoPromise, !.pipelines[key] = NoPipeline]

\* clear()
Clear(s) ==
    [s EXCEPT !.pendingPipelines = [k \in Keys |-> NoPromise],
              !.pipelines = [k \in Keys |-> NoPipeline]]

SetPM(s) ==
    /\ pipelines' = s.pipelines
    /\ pendingPipelines' = s.pendingPipelines
    /\ builds' = s.builds
    /\ created' = s.created

InitPM ==
    /\ pipelines = [k \in Keys |-> NoPipeline]
    /\ pendingPipelines = [k \in Keys |-> NoPromise]
    /\ builds = <<>>
    /\ created = 0
    /\ calls = <<>>

\* A caller outside the renderer calls getOrCreateAsync(key, builder).
CallGetOrCreateAsync(key) ==
    /\ Len(calls) < MaxCalls
    /\ UNCHANGED notPM
    /\ LET r == GetOrCreateAsync(PM, key) IN
       /\ Len(r.s.builds) <= MaxBuilds
       /\ SetPM(r.s)
       /\ calls' = Append(calls, [op |-> "getOrCreateAsync", key |-> key,
                                  pipeline |-> r.pipeline, promise |-> r.promise,
                                  started |-> r.started,
                                  inflight |-> Running(PM, key)])

CallGetOrCreate(key) ==
    /\ Len(calls) < MaxCalls
    /\ UNCHANGED notPM
    /\ LET r == GetOrCreate(PM, key) IN
       /\ r.s.created <= MaxPipelines
       /\ SetPM(r.s)
       /\ calls' = Append(calls, [op |-> "getOrCreate", key |-> key,
                                  pipeline |-> r.pipeline, promise |-> NoPromise,
                                  started |-> r.started,
                                  inflight |-> Running(PM, key)])

CallRemove(key) ==
    /\ Len(calls) < MaxCalls
    /\ UNCHANGED notPM
    /\ SetPM(Remove(PM, key))
    /\ calls' = Append(calls, [op |-> "remove", key |-> key,
                               pipeline |-> NoPipeline, promise |-> NoPromise,
                               started |-> FALSE, inflight |-> Running(PM, key)])

CallClear ==
    /\ Len(calls) < MaxCalls
    /\ UNCHANGED notPM
    /\ SetPM(Clear(PM))
    /\ calls' = Append(calls, [op |-> "clear", key |-> "*",
                               pipeline |-> NoPipeline, promise |-> NoPromise,
                               started |-> FALSE, inflight |-> {}])

\* The descriptor promise of build b resolves and the pipeline is created.
BuildResolve(b) ==
    /\ b \in DOMAIN builds
    /\ builds[b].status = "pending"
    /\ created < MaxPipelines
    /\ SetPM(BuildReturns(PM, b))
    /\ UNCHANGED <<calls, notPM>>

\* Build b fails.
BuildReject(b) ==
    /\ b \in DOMAIN builds
    /\ builds[b].status = "pending"
    /\ SetPM(BuildThrows(PM, b))
    /\ UNCHANGED <<calls, notPM>>

\* ------------------------------------- ForwardRenderer and RenderSystem

\* The ForwardRenderer instances that createDefaultRenderer has made.
Renderers == {"r1", "r2"}

\* The value of a property that was never assigned.
Undefined == "undefined"

\* The ids under which CanvasManager.registerCanvas has stored a context.
RegisteredCanvases == {"main"}

\* The cameras handed to renderFrame. camA, camB and camU are ICamera objects
\* with the renderer the interface declares; camP is a PerspectiveCamera,
\* whose constructor takes (scene, target) and assigns no renderer, so that
\* the third argument ExampleScene passes is dropped.
Cameras == {"camA", "camB", "camU", "camP"}

CameraRenderer(c) ==
    CASE c = "camA" -> "r1"
      [] c = "camB" -> "r2"
      [] c = "camU" -> "r1"
      [] c = "camP" -> Undefined

CameraTarget(c) ==
    CASE c = "camA" -> [type |-> "canvas", canvasId |-> "main"]
      [] c = "camB" -> [type |-> "texture", canvasId |-> ""]
      [] c = "camU" -> [type |-> "canvas", canvasId |-> "unregistered"]
      [] c = "camP" -> [type |-> "canvas", canvasId |-> "main"]

CameraScene(c) == IF c = "camB" THEN "sceneB" ELSE "sceneA"

\* scene.renderables, in iteration (insertion) order.
SceneRenderables(sc) ==
    IF sc = "sceneA" THEN <<"cube", "tri">> ELSE <<"tri">>

\* Whether the renderable's mesh carries an index buffer.
HasIndexBuffer(rb) == rb = "cube"

\* _uniformBuffer === null
NoBuffer == 0

\* The null that createRenderContext returns for an unresolvable target.
NoContext == [ok |-> FALSE, camera |-> "", scene |-> "", format |-> ""]

\* RenderSystem.createRenderContext(camera)
CreateRenderContext(c) ==
    LET target == CameraTarget(c) IN
    IF target.type = "canvas" /\ target.canvasId \notin RegisteredCanvases
    THEN NoContext
    ELSE [ok |-> TRUE, camera |-> c, scene |-> CameraScene(c),
          format |-> PreferredFormat]

\* A loop over the renderables that always calls draw(), never drawIndexed().
DrawRenderables_Unindexed(c, rbs, i) ==
    [j \in 1..(Len(rbs) - i + 1) |->
        [camera |-> c, renderable |-> rbs[i + j - 1], indexed |-> FALSE]]

\* The draw calls of the loop over camera.scene.renderables.
RECURSIVE DrawRenderables(_, _, _)
DrawRenderables(c, rbs, i) ==
    IF i > Len(rbs) THEN <<>>
    ELSE <<[camera |-> c, renderable |-> rbs[i],
            indexed |-> HasIndexBuffer(rbs[i])]>>
         \o DrawRenderables(c, rbs, i + 1)

\* The queue.writeBuffer calls of the loop over camera.scene.renderables: each
\* writes the renderable's model matrix and the camera's view and projection
\* matrices at offset 0 of the uniform buffer of renderer r.
RECURSIVE UniformWrites(_, _, _, _)
UniformWrites(c, rbs, r, i) ==
    IF i > Len(rbs) THEN <<>>
    ELSE <<[bufferOf |-> r, model |-> rbs[i], view |-> c, projection |-> c]>>
         \o UniformWrites(c, rbs, r, i + 1)

\* render() that draws without waiting for the pipeline.
Render_DrawsUnready(w, r, ctx) ==
    LET key == PipelineKey(ctx.format)
        pipeline == Get(w.pm, key)
        w1 == IF pipeline = NoPipeline /\ ~Has(w.pm, key)
              THEN LET started == GetOrCreateAsync(w.pm, key) IN
                   [w EXCEPT !.pm = started.s,
                             !.f.caught = @ \cup {started.promise}]
              ELSE w
        w2 == [w1 EXCEPT !.f.dispatched = Append(@, ctx.camera)] IN
    [w2 EXCEPT !.f.passes = Append(@, ctx.camera),
               !.f.draws = @ \o DrawRenderables(ctx.camera,
                                   SceneRenderables(ctx.scene), 1)]

\* render() that creates a uniform buffer in every call that draws.
Render_NewBufferEachCall(w, r, ctx) ==
    LET key == PipelineKey(ctx.format)
        pipeline == Get(w.pm, key)
        w1 == IF pipeline = NoPipeline /\ ~Has(w.pm, key)
              THEN LET started == GetOrCreateAsync(w.pm, key) IN
                   [w EXCEPT !.pm = started.s,
                             !.f.caught = @ \cup {started.promise}]
              ELSE w
        w2 == [w1 EXCEPT !.f.dispatched = Append(@, ctx.camera)] IN
    IF pipeline = NoPipeline THEN w2
    ELSE [w2 EXCEPT !.buffers = @ + 1, !.ubuf[r] = w2.buffers + 1,
                    !.f.passes = Append(@, ctx.camera),
                    !.f.draws = @ \o DrawRenderables(ctx.camera,
                                        SceneRenderables(ctx.scene), 1),
                    !.f.ended = Append(@, ctx.camera)]

\* ForwardRenderer.render(commandEncoder, context) of renderer r. w carries
\* the PipelineManager, the uniform buffers and the frame's record.
Render(w, r, ctx) ==
    LET key == PipelineKey(ctx.format)
        pipeline == Get(w.pm, key)
        w1 == IF pipeline = NoPipeline /\ ~Has(w.pm, key)
              THEN LET started == GetOrCreateAsync(w.pm, key) IN
                   [w EXCEPT !.pm = started.s,
                             !.f.caught = @ \cup {started.promise}]
              ELSE w
        w2 == [w1 EXCEPT !.f.dispatched = Append(@, ctx.camera)] IN
    IF pipeline = NoPipeline THEN w2
    ELSE LET w3 == IF w2.ubuf[r] = NoBuffer
                   THEN [w2 EXCEPT !.buffers = @ + 1, !.ubuf[r] = w2.buffers + 1]
                   ELSE w2 IN
         [w3 EXCEPT !.f.passes = Append(@, ctx.camera),
                    !.f.writes = @ \o UniformWrites(ctx.camera,
                                         SceneRenderables(ctx.scene), r, 1),
                    !.f.draws = @ \o DrawRenderables(ctx.camera,
                                        SceneRenderables(ctx.scene), 1),
                    !.f.ended = Append(@, ctx.camera)]

\* The loop of renderFrame over cameras i .. Len(cs), and the submit after it.
\* Reading .render of an undefined renderer throws a TypeError, which leaves
\* renderFrame before queue.submit.
RECURSIVE ProcessCameras(_, _, _)
ProcessCameras(w, cs, i) ==
    IF i > Len(cs)
    THEN [w EXCEPT !.f.submits = @ + 1, !.f.processedAtSubmit = i - 1]
    ELSE LET ctx == CreateRenderContext(cs[i]) IN
         IF ~ctx.ok
         THEN ProcessCameras([w EXCEPT !.f.skipped = Append(@, cs[i])], cs, i + 1)
         ELSE IF CameraRenderer(cs[i]) = Undefined
         THEN [w EXCEPT !.f.threw = TRUE]
         ELSE ProcessCameras(Render(w, CameraRenderer(cs[i]), ctx), cs, i + 1)

\* The record of a frame: the encoders created, the queue.submit calls, the
\* cameras whose context was null, the cameras passed to a renderer, the
\* render passes begun, the uniform-buffer writes issued (the k-th precedes
\* the k-th draw and fills the buffer that draw binds), the draws recorded and
\* the passes ended, each in order, and the promises a .catch was attached to.
NewFrame(cs, tick) ==
    [tick |-> tick, cameras |-> cs, encoders |-> 0, submits |-> 0,
     processedAtSubmit |-> 0, threw |-> FALSE,
     skipped |-> <<>>, dispatched |-> <<>>, passes |-> <<>>, draws |-> <<>>,
     writes |-> <<>>, ended |-> <<>>, caught |-> {}]

\* RenderSystem.renderFrame(cameras)
RenderFrameOp(s, ubuf, nbuf, cs, tick) ==
    ProcessCameras([pm |-> s, ubuf |-> ubuf, buffers |-> nbuf,
                    f |-> [NewFrame(cs, tick) EXCEPT !.encoders = 1]], cs, 1)

InitRender ==
    /\ uniformBuffer = [r \in Renderers |-> NoBuffer]
    /\ buffers = 0
    /\ frame = NewFrame(<<>>, 0)
    /\ catchers = {}

\* The camera lists renderFrame is called with: up to MaxCameras cameras.
MaxCameras == 2

\* getRenderCameras yields each camera once.
CameraLists ==
    {<<>>} \cup UNION {{cs \in [1..n -> Cameras] :
                            \A i, j \in 1..n : cs[i] = cs[j] => i = j} :
                       n \in 1..MaxCameras}

\* The uniform buffers the model lets the renderers create.
MaxBuffers == 3

\* ForwardRenderer.dispose() of renderer r
Dispose(ubuf, r) == [ubuf EXCEPT ![r] = NoBuffer]

\* Some code disposes renderer r, which holds a uniform buffer.
DisposeCall(r) ==
    /\ uniformBuffer[r] # NoBuffer
    /\ uniformBuffer' = Dispose(uniformBuffer, r)
    /\ UNCHANGED <<pmVars, buffers, frame, catchers, notRender>>

\* One renderFrame(cs) call; frame.tick alternates so that every call shows.
RenderFrame(cs) ==
    LET w == RenderFrameOp(PM, uniformBuffer, buffers, cs, 1 - frame.tick) IN
    /\ Len(w.pm.builds) <= MaxBuilds
    /\ w.buffers <= MaxBuffers
    /\ SetPM(w.pm)
    /\ uniformBuffer' = w.ubuf
    /\ buffers' = w.buffers
    /\ frame' = w.f
    /\ catchers' = catchers \cup w.f.caught
    /\ UNCHANGED <<calls, notRender>>

\* ---------------------------- ShaderAsset, AssetManager and the event loop

\* enum AssetState { Unloaded, Loading, Ready, Failed }
Unloaded == 0
Loading == 1
Ready == 2
Failed == 3

\* s1 and s2 are ShaderAssets; m1 is an IAsset that exposes no load().
Assets == {"s1", "s2", "m1"}

HasLoad(a) == a \in {"s1", "s2"}

\* sourceCode: string | null
Null == "null"

\* The text that response.text() yields.
FetchedText == "wgsl"

\* A promise not settled yet has shown no state to its caller.
NotReturned == -1

\* No coroutine awaits the promise.
NoProc == 0

\* The assets and the event loop as one value, for the operators below.
AW == [state |-> state, error |-> error, sourceCode |-> sourceCode,
       procs |-> procs, microtasks |-> microtasks, spin |-> spin]

\* An async call: its function, its asset (for prepare, its list of assets),
\* where it stands, the coroutine that awaits its promise, the outcome of the
\* I/O it awaited last, and the asset state its caller finds when the promise
\* has settled.
NewProc(fn, a, pc, parent) ==
    [fn |-> fn, asset |-> a, list |-> <<>>, pc |-> pc, parent |-> parent,
     io |-> "none", observed |-> NotReturned]

Children(w, p) == {q \in DOMAIN w.procs : w.procs[q].parent = p}

Settled(pr) == pr.pc \in {"done", "resolved", "rejected"}

\* Some promise given to the Promise.all of prepare p has rejected.
AnyRejected(w, p) == \E q \in Children(w, p) : w.procs[q].pc = "rejected"

\* The promise of a coroutine settles: the continuation of the coroutine that
\* awaits it becomes a microtask. The Promise.all that prepare awaits settles
\* once, when every ensureReady promise has fulfilled or the first has rejected.
Notify(w, parent) ==
    IF parent = NoProc THEN w
    ELSE IF w.procs[parent].fn = "prepare"
              /\ \/ w.procs[parent].pc # "awaitAll"
                 \/ \E i \in DOMAIN w.microtasks : w.microtasks[i] = parent
                 \/ /\ ~AnyRejected(w, parent)
                    /\ \E q \in Children(w, parent) : ~Settled(w.procs[q])
    THEN w
    ELSE [w EXCEPT !.microtasks = Append(@, parent)]

\* load() that starts a fetch whatever the state is.
Load_NoStateCheck(w, a, parent) ==
    [w EXCEPT !.state[a] = Loading,
              !.procs = Append(@, NewProc("load", a, "awaitFetch", parent))]

\* ShaderAsset.load(), up to its first await: either the early return, or
\* state = Loading and fetch(url) started.
Load(w, a, parent) ==
    IF w.state[a] # Unloaded
    THEN Notify([w EXCEPT !.procs = Append(@, NewProc("load", a, "resolved", parent))],
                parent)
    ELSE [w EXCEPT !.state[a] = Loading,
                   !.procs = Append(@, NewProc("load", a, "awaitFetch", parent))]

\* getCPUData(), given the sourceCode fields.
GetCPUData(sc, a) == sc[a]

\* A discard that also puts the asset back to Unloaded.
Discard_ResetsState(w, a) ==
    [w EXCEPT !.sourceCode[a] = Null, !.state[a] = Unloaded]

\* ShaderAsset.discardCPUData()
Discard(w, a) == [w EXCEPT !.sourceCode[a] = Null]

\* A catch block that rethrows without recording the error.
LoadFails_NoError(w, p) ==
    Notify([w EXCEPT !.state[w.procs[p].asset] = Failed,
                     !.procs[p].pc = "rejected"], w.procs[p].parent)

\* The catch block of load(): state = Failed, error = err, throw err.
LoadFails(w, p) ==
    LET pr == w.procs[p] IN
    Notify([w EXCEPT !.state[pr.asset] = Failed,
                     !.error[pr.asset] = pr.io,
                     !.procs[p].pc = "rejected"], pr.parent)

\* An ensureReady that lets the failure of its load() through.
Finish_Rethrow(w, p) ==
    IF \E q \in Children(w, p) : w.procs[q].pc = "rejected"
    THEN Notify([w EXCEPT !.procs[p].pc = "rejected"], w.procs[p].parent)
    ELSE Notify([w EXCEPT !.procs[p].pc = "done",
                          !.procs[p].observed = w.state[w.procs[p].asset]],
                w.procs[p].parent)

\* ensureReady / waitForCompletion return to their caller.
Finish(w, p) ==
    Notify([w EXCEPT !.procs[p].pc = "done",
                     !.procs[p].observed = w.state[w.procs[p].asset]],
           w.procs[p].parent)

\* An ensureReady that calls load() on whatever asset it is given.
EnsureReady_ForcesLoad(w, a, parent) ==
    Load([w EXCEPT !.procs = Append(@, NewProc("ensureReady", a, "awaitLoad", parent))],
         a, Len(w.procs) + 1)
\* AssetManager.ensureReady(asset), up to its first await.
EnsureReady(w, a, parent) ==
    LET id == Len(w.procs) + 1 IN
    IF w.state[a] = Ready \/ w.state[a] = Failed
    THEN [w EXCEPT !.procs = Append(@, [NewProc("ensureReady", a, "done", parent)
                                        EXCEPT !.observed = w.state[a]])]
    ELSE IF w.state[a] = Loading
    THEN \* waitForCompletion: the loop condition holds, await Promise.resolve()
         [w EXCEPT !.procs = Append(@, NewProc("ensureReady", a, "polling", parent)),
                   !.microtasks = Append(@, id)]
    ELSE IF ~HasLoad(a)
    THEN [w EXCEPT !.procs = Append(@, [NewProc("ensureReady", a, "done", parent)
                                        EXCEPT !.observed = w.state[a]])]
    ELSE Load([w EXCEPT !.procs = Append(@, NewProc("ensureReady", a, "awaitLoad", parent))],
              a, id)

\* The ensureReady calls of prepare's Array.from(assets).map(...), in order.
RECURSIVE FanOut(_, _, _, _)
FanOut(w, as, i, parent) ==
    IF i > Len(as) THEN w
    ELSE FanOut(EnsureReady(w, as[i], parent), as, i + 1, parent)

\* prepare that does not await the ensureReady promises.
Prepare_NoWait(w, as) ==
    LET id == Len(w.procs) + 1 IN
    FanOut([w EXCEPT !.procs = Append(@, [NewProc("prepare", "", "done", NoProc)
                                          EXCEPT !.list = as])],
           as, 1, id)

\* AssetManager.prepare(assets), up to its await of Promise.all.
Prepare(w, as) ==
    LET id == Len(w.procs) + 1
        w1 == FanOut([w EXCEPT !.procs = Append(@, [NewProc("prepare", "", "awaitAll", NoProc)
                                                    EXCEPT !.list = as])],
                     as, 1, id) IN
    IF \A q \in Children(w1, id) : Settled(w1.procs[q])
    THEN [w1 EXCEPT !.procs[id].pc = "done"]
    ELSE w1

\* The event loop runs the oldest microtask: the continuation of a coroutine
\* after the await it was suspended at.
RunMicrotask(w) ==
    LET p == Head(w.microtasks)
        pr == w.procs[p]
        a == pr.asset
        w0 == [w EXCEPT !.microtasks = Tail(@)] IN
    CASE pr.fn = "load" /\ pr.pc = "fetched" ->
            \* fetch rejected, or response.ok is false: throw; else response.text()
            IF pr.io = "ok" THEN [w0 EXCEPT !.procs[p].pc = "awaitText"]
            ELSE LoadFails(w0, p)
      [] pr.fn = "load" /\ pr.pc = "texted" ->
            IF pr.io = "ok"
            THEN Notify([w0 EXCEPT !.sourceCode[a] = FetchedText,
                                   !.state[a] = Ready,
                                   !.procs[p].pc = "resolved"], pr.parent)
            ELSE LoadFails(w0, p)
      [] pr.fn = "ensureReady" /\ pr.pc = "awaitLoad" ->
            \* try { await load() } catch { }: returns either way
            Finish(w0, p)
      [] pr.fn = "ensureReady" /\ pr.pc = "polling" ->
            \* while (asset.state === Loading) await Promise.resolve()
            IF w0.state[a] = Loading
            THEN [w0 EXCEPT !.microtasks = Append(@, p), !.spin = 1 - @]
            ELSE Finish(w0, p)
      [] pr.fn = "prepare" ->
            \* await Promise.all(...): throws when one of the promises rejected
            [w0 EXCEPT !.procs[p].pc = IF AnyRejected(w0, p) THEN "rejected"
                                       ELSE "done"]

SetAW(w) ==
    /\ state' = w.state
    /\ error' = w.error
    /\ sourceCode' = w.sourceCode
    /\ procs' = w.procs
    /\ microtasks' = w.microtasks
    /\ spin' = w.spin

InitAsset ==
    /\ state = [a \in Assets |-> Unloaded]
    /\ error = [a \in Assets |-> Undefined]
    /\ sourceCode = [a \in Assets |-> Null]
    /\ procs = <<>>
    /\ microtasks = <<>>
    /\ spin = 0

\* The coroutines the model lets run, and the longest list given to prepare.
MaxProcs == 4
MaxPrepare == 2

AssetLists == UNION {[1..n -> Assets] : n \in 1..MaxPrepare}

\* Some code calls assetManager.ensureReady(a).
EnsureReadyCall(a) ==
    LET w == EnsureReady(AW, a, NoProc) IN
    /\ Len(w.procs) <= MaxProcs
    /\ SetAW(w)
    /\ UNCHANGED notAsset

\* Some code calls asset.load().
LoadCall(a) ==
    LET w == Load(AW, a, NoProc) IN
    /\ HasLoad(a)
    /\ Len(w.procs) <= MaxProcs
    /\ SetAW(w)
    /\ UNCHANGED notAsset

\* Some code calls assetManager.prepare(as).
PrepareCall(as) ==
    LET w == Prepare(AW, as) IN
    /\ Len(w.procs) <= MaxProcs
    /\ SetAW(w)
    /\ UNCHANGED notAsset

\* Engine.prepare(): the prepare call of start-up, made before any other
\* ensureReady or prepare call, over the assets the scenes need.
PrepareFirst(as) ==
    /\ \A p \in DOMAIN procs : procs[p].fn = "load"
    /\ SetAW(Prepare(AW, as))
    /\ UNCHANGED notAsset

\* Some code calls asset.discardCPUData() on a ShaderAsset.
DiscardCPUData(a) ==
    /\ HasLoad(a)
    /\ SetAW(Discard(AW, a))
    /\ UNCHANGED notAsset

\* A task of the event loop settles the fetch that load p awaits: the response
\* arrived with response.ok, arrived without it, or the request failed. The
\* event loop starts a task only when the microtask queue is empty.
FetchSettle(p, outcome) ==
    /\ microtasks = <<>>
    /\ p \in DOMAIN procs
    /\ procs[p].fn = "load" /\ procs[p].pc = "awaitFetch"
    /\ procs' = [procs EXCEPT ![p].pc = "fetched", ![p].io = outcome]
    /\ microtasks' = <<p>>
    /\ UNCHANGED <<state, error, sourceCode, spin, notAsset>>

\* A task of the event loop settles the response.text() that load p awaits.
TextSettle(p, outcome) ==
    /\ microtasks = <<>>
    /\ p \in DOMAIN procs
    /\ procs[p].fn = "load" /\ procs[p].pc = "awaitText"
    /\ procs' = [procs EXCEPT ![p].pc = "texted", ![p].io = outcome]
    /\ microtasks' = <<p>>
    /\ UNCHANGED <<state, error, sourceCode, spin, notAsset>>

\* The event loop runs one microtask.
MicrotaskStep ==
    /\ microtasks # <<>>
    /\ SetAW(RunMicrotask(AW))
    /\ UNCHANGED notAsset

\* ------------------------------- ShaderModuleManager and FallbackManager

\* The handle ids and the shader modules the model uses.
MaxHandleId == 2
MaxModules == 3

HandleIds == 0..MaxHandleId

\* The shader-module cache and the fallback manager as one value.
FW == [modules |-> modules, moduleCount |-> moduleCount,
       fallbackShaderHandles |-> fallbackShaderHandles,
       fallbackShaderCount |-> fallbackShaderCount]

\* ShaderModuleManager.createShaderModule(handle, code): a new GPU module,
\* stored under handle.id whatever was stored there.
CreateShaderModule(w, id, code) ==
    LET m == [code |-> code, serial |-> w.moduleCount + 1] IN
    [w EXCEPT !.moduleCount = @ + 1,
              !.modules = (id :> m) @@ w.modules]

\* The cache key `fallback-shader-${originalHandle.id}`.
FallbackKey(id) == "fallback-shader-" \o ToString(id)

\* getFallbackShader that mints a handle on every call.
GetFallbackShader_NoMemo(w, id) ==
    LET handle == w.fallbackShaderCount + 1
        w1 == CreateShaderModule([w EXCEPT !.fallbackShaderCount = handle],
                                 handle, "FALLBACK_VERTEX_SHADER") IN
    [w |-> [w1 EXCEPT !.fallbackShaderHandles = (FallbackKey(id) :> handle) @@ @],
     ret |-> handle]

\* getFallbackShader that hands out one handle per shader kind: originals of
\* the same parity share a fallback handle.
GetFallbackShader_HandlePerKind(w, id) ==
    LET key == FallbackKey(id) IN
    IF key \in DOMAIN w.fallbackShaderHandles
    THEN [w |-> w, ret |-> w.fallbackShaderHandles[key]]
    ELSE LET handle == (id % 2) + 1
             w1 == CreateShaderModule([w EXCEPT !.fallbackShaderCount = @ + 1],
                                      handle, "FALLBACK_VERTEX_SHADER") IN
         [w |-> [w1 EXCEPT !.fallbackShaderHandles = (key :> handle) @@ @],
          ret |-> handle]
\* FallbackManager.getFallbackShader(originalHandle)
GetFallbackShader(w, id) ==
    LET key == FallbackKey(id) IN
    IF key \in DOMAIN w.fallbackShaderHandles
    THEN [w |-> w, ret |-> w.fallbackShaderHandles[key]]
    ELSE LET handle == w.fallbackShaderCount + 1
             isVertexShader == id % 2 = 0
             fallbackCode == IF isVertexShader THEN "FALLBACK_VERTEX_SHADER"
                             ELSE "FALLBACK_FRAGMENT_SHADER"
             w1 == CreateShaderModule([w EXCEPT !.fallbackShaderCount = handle],
                                      handle, fallbackCode) IN
         [w |-> [w1 EXCEPT !.fallbackShaderHandles = (key :> handle) @@ @],
          ret |-> handle]

\* enum AssetType, and a value outside it.
AssetTypeArgs == {"Shader", "Texture", "Mesh", "Material", "Other"}

\* The null that the texture, mesh and material stubs return; fallback shader
\* handles are 1, 2, ...
NullResult == 0

\* FallbackManager.getFallbackResource(assetType, originalHandle): the state
\* after it, what it returned, and whether it threw instead.
GetFallbackResource(w, type, id) ==
    CASE type = "Shader" ->
            LET r == GetFallbackShader(w, id) IN
            [w |-> r.w, ret |-> r.ret, threw |-> FALSE]
      [] type \in {"Texture", "Mesh", "Material"} ->
            [w |-> w, ret |-> NullResult, threw |-> FALSE]
      [] OTHER ->
            [w |-> w, ret |-> NullResult, threw |-> TRUE]

SetFW(w) ==
    /\ modules' = w.modules
    /\ moduleCount' = w.moduleCount
    /\ fallbackShaderHandles' = w.fallbackShaderHandles
    /\ fallbackShaderCount' = w.fallbackShaderCount

\* RenderSystem.createShaderModule(handle, code): a real shader is compiled
\* under the handle its owner holds.
RealCreateShaderModule(id) ==
    /\ moduleCount < MaxModules
    /\ SetFW(CreateShaderModule(FW, id, "real"))
    /\ realIds' = realIds \cup {id}
    /\ UNCHANGED <<fb, nf, notFallback>>

\* getFallbackResource(AssetType.Shader, {id})
FallbackShaderCall(id) ==
    LET r == GetFallbackResource(FW, "Shader", id) IN
    /\ r.w.moduleCount <= MaxModules
    /\ SetFW(r.w)
    /\ fb' = [called |-> TRUE, type |-> "Shader", original |-> id, ret |-> r.ret,
              threw |-> r.threw]
    /\ UNCHANGED <<realIds, nf, notFallback>>

\* getFallbackResource(type, {id}) for a type other than Shader.
FallbackOtherCall(type, id) ==
    LET r == GetFallbackResource(FW, type, id) IN
    /\ type # "Shader"
    /\ SetFW(r.w)
    /\ fb' = [called |-> TRUE, type |-> type, original |-> id, ret |-> r.ret,
              threw |-> r.threw]
    /\ UNCHANGED <<realIds, nf, notFallback>>

\* A JavaScript value with its type, and the === of two such values.
JsNumber(n) == [type |-> "number", num |-> n, str |-> ""]
JsString(x) == [type |-> "string", num |-> 0, str |-> x]
StrictEquals(x, y) == x.type = y.type /\ x.num = y.num /\ x.str = y.str

\* The arguments given to needsFallback: null, undefined, or an asset object
\* in one of the four states.
AssetArgs ==
    {[kind |-> "null", state |-> Unloaded], [kind |-> "undefined", state |-> Unloaded]}
        \cup {[kind |-> "asset", state |-> st] : st \in {Unloaded, Loading, Ready, Failed}}

Truthy(x) == x.kind = "asset"

\* needsFallback(asset):
\*   asset && (asset.state === "failed" || asset.state === "unloaded" || !asset)
\* && yields its left operand when that is falsy; asset.state is a number of
\* the AssetState enum.
NeedsFallback(x) ==
    IF ~Truthy(x) THEN x.kind
    ELSE IF \/ StrictEquals(JsNumber(x.state), JsString("failed"))
            \/ StrictEquals(JsNumber(x.state), JsString("unloaded"))
            \/ ~Truthy(x)
         THEN "true" ELSE "false"

NeedsFallbackCall(x) ==
    /\ nf' = [called |-> TRUE, arg |-> x, result |-> NeedsFallback(x)]
    /\ UNCHANGED <<modules, moduleCount, fallbackShaderHandles, fallbackShaderCount,
                   realIds, fb, notFallback>>

\* ------------------------------------------------- AssetManager's registry

\* The registers the model makes, and the objects per id it makes them with.
MaxRegisters == 4
MaxInstances == 2

\* Asset ids (a ShaderAsset's id is its url).
AssetIds == {"s1", "s2"}

\* The asset objects: two objects with the same id are different instances.
Instances == [id : AssetIds, n : 1..MaxInstances]

\* assets.get(id) found nothing.
NoInstance == [id |-> "", n |-> 0]

\* AssetManager.get(id)
AssetGet(w, id) == w[id]

\* register that stores the caller's instance whatever is registered.
Register_Overwrite(w, asset) ==
    [assets |-> [w EXCEPT ![asset.id] = asset], ret |-> asset]

\* register that keeps only the newest id: storing a new id drops the others.
Register_Evicts(w, asset) ==
    IF AssetGet(w, asset.id) # NoInstance
    THEN [assets |-> w, ret |-> AssetGet(w, asset.id)]
    ELSE [assets |-> [id \in AssetIds |-> IF id = asset.id THEN asset ELSE NoInstance],
          ret |-> asset]
\* AssetManager.register(asset)
Register(w, asset) ==
    LET existing == AssetGet(w, asset.id) IN
    IF existing # NoInstance
    THEN [assets |-> w, ret |-> existing]
    ELSE [assets |-> [w EXCEPT ![asset.id] = asset], ret |-> asset]

InitRegistry ==
    /\ assets = [id \in AssetIds |-> NoInstance]
    /\ registerLog = <<>>

\* Some code calls assetManager.register(asset).
RegisterCall(asset) ==
    LET r == Register(assets, asset) IN
    /\ Len(registerLog) < MaxRegisters
    /\ assets' = r.assets
    /\ registerLog' = Append(registerLog, [arg |-> asset, ret |-> r.ret])
    /\ UNCHANGED notRegistry

\* ---------------------------------------------------------- ShaderManager

\* The loadShader calls the model makes.
MaxLoads == 3

ShaderTypes == {"vertex", "fragment"}
ShaderPaths == {"basic.wgsl"}

\* const cacheKey = `${type}_${path}`
CacheKey(type, path) == type \o "_" \o path

ShaderKeys == {CacheKey(t, pa) : t \in ShaderTypes, pa \in ShaderPaths}

\* shaderCache has no module under the key; modules are 1, 2, ...
NoModule == 0

\* The manager's state as one value, for the operators below.
SM == [shaderCache |-> shaderCache, shaderCodeCache |-> shaderCodeCache,
       shaderLoads |-> shaderLoads, shaderModulesMade |-> shaderModulesMade]

\* loadShader from `this.shaderCodeCache.set(cacheKey, code)` to its return:
\* a module is created, cached under the key and returned by call p.
CreateAndCache(w, p) ==
    LET key == CacheKey(w.shaderLoads[p].type, w.shaderLoads[p].path)
        module == Len(w.shaderModulesMade) + 1 IN
    [w EXCEPT !.shaderCodeCache = @ \cup {key},
              !.shaderModulesMade = Append(@, key),
              !.shaderCache[key] = module,
              !.shaderLoads[p].pc = "done",
              !.shaderLoads[p].ret = module]

\* loadShader(path, type, shaderCode), up to its first await or its return.
\* given: the caller passed the code. Without it loadShaderCode(path) is
\* awaited, which answers from shaderCodeCache or loads the file.
LoadShader(w, type, path, given) ==
    LET key == CacheKey(type, path)
        p == Len(w.shaderLoads) + 1
        call == [type |-> type, path |-> path, pc |-> "awaitCode",
                 from |-> "file", ret |-> NoModule] IN
    IF w.shaderCache[key] # NoModule
    THEN [w EXCEPT !.shaderLoads = Append(@, [call EXCEPT !.pc = "done",
                                                          !.from = "shaderCache",
                                                          !.ret = w.shaderCache[key]])]
    ELSE IF given
    THEN CreateAndCache([w EXCEPT !.shaderLoads =
                                      Append(@, [call EXCEPT !.from = "argument"])], p)
    ELSE IF path \in w.shaderCodeCache
    THEN [w EXCEPT !.shaderLoads = Append(@, [call EXCEPT !.from = "shaderCodeCache"])]
    ELSE [w EXCEPT !.shaderLoads = Append(@, call)]

\* The continuation of call p after `await this.loadShaderCode(path)`: the
\* code arrived (and loadShaderCode cached it under the path), or the file
\* could not be loaded and loadShaderCode threw.
CodeSettles(w, p, ok) ==
    IF ok
    THEN CreateAndCache([w EXCEPT !.shaderCodeCache = @ \cup {w.shaderLoads[p].path}], p)
    ELSE [w EXCEPT !.shaderLoads[p].pc = "rejected"]

SetSM(w) ==
    /\ shaderCache' = w.shaderCache
    /\ shaderCodeCache' = w.shaderCodeCache
    /\ shaderLoads' = w.shaderLoads
    /\ shaderModulesMade' = w.shaderModulesMade

InitShader ==
    /\ shaderCache = [k \in ShaderKeys |-> NoModule]
    /\ shaderCodeCache = {}
    /\ shaderLoads = <<>>
    /\ shaderModulesMade = <<>>

\* loadVertexShader(path, code) or loadFragmentShader(path, code) is called.
LoadShaderCall(type, path, given) ==
    /\ Len(shaderLoads) < MaxLoads
    /\ SetSM(LoadShader(SM, type, path, given))
    /\ UNCHANGED notShader

\* The loadShaderCode that call p awaits settles.
CodeSettle(p, ok) ==
    /\ p \in DOMAIN shaderLoads
    /\ shaderLoads[p].pc = "awaitCode"
    /\ ok \/ shaderLoads[p].from = "file"
    /\ SetSM(CodeSettles(SM, p, ok))
    /\ UNCHANGED notShader

\* ------------------------------------------- RenderSystem's renderer list

\* The registerRenderer calls the model makes.
MaxRenderers == 4

\* IRenderer.priority of the renderers registered: ForwardRenderer's 0 and the
\* priorities 1 and 5 of other IRenderer implementations.
Priorities == {0, 1, 5}

\* The comparator (a, b) => a.priority - b.priority
ComparePriority(a, b) == a.priority - b.priority

\* One step of a stable sort: x goes behind every element that the comparator
\* does not order after it.
RECURSIVE InsertSorted(_, _)
InsertSorted(q, x) ==
    IF q = <<>> THEN <<x>>
    ELSE IF ComparePriority(q[Len(q)], x) <= 0 THEN Append(q, x)
    ELSE Append(InsertSorted(SubSeq(q, 1, Len(q) - 1), x), q[Len(q)])

\* Array.prototype.sort with the comparator above: a stable sort of the whole
\* array.
RECURSIVE SortRenderers(_)
SortRenderers(q) ==
    IF q = <<>> THEN <<>>
    ELSE InsertSorted(SortRenderers(SubSeq(q, 1, Len(q) - 1)), q[Len(q)])

\* registerRenderer that only pushes.
RegisterRenderer_NoSort(rs, renderer) == Append(rs, renderer)

\* RenderSystem.registerRenderer(renderer)
RegisterRenderer(rs, renderer) == SortRenderers(Append(rs, renderer))

InitRenderers == renderers = <<>>

\* Some code registers a new renderer object of priority p; n tells the
\* renderer objects apart by the order of their registration.
RegisterRendererCall(p) ==
    /\ Len(renderers) < MaxRenderers
    /\ renderers' = RegisterRenderer(renderers,
                                     [n |-> Len(renderers) + 1, priority |-> p])
    /\ UNCHANGED notRenderers
\* ------------------------------------------------ Scene and SceneManager

\* The Scene objects.
Scenes == {"sceneA", "sceneB"}

\* The values callers assign to camera.order.
Orders == {0, 1}

\* Set.prototype.add and Set.prototype.delete, on a Set kept as the sequence
\* of its elements in insertion order.
SetAdd(q, x) == IF \E i \in DOMAIN q : q[i] = x THEN q ELSE Append(q, x)
SetDelete(q, x) == SelectSeq(q, LAMBDA y : y # x)

\* addCamera without the ownership check.
AddCamera_NoCheck(cams, sc, c) ==
    [cameras |-> [cams EXCEPT ![sc] = SetAdd(@, c)], threw |-> FALSE]

\* Scene.addCamera(camera) on scene sc
AddCamera(cams, sc, c) ==
    IF CameraScene(c) # sc
    THEN [cameras |-> cams, threw |-> TRUE]
    ELSE [cameras |-> [cams EXCEPT ![sc] = SetAdd(@, c)], threw |-> FALSE]

\* Scene.removeCamera(camera) on scene sc
RemoveCamera(cams, sc, c) == [cams EXCEPT ![sc] = SetDelete(@, c)]

\* Scene.onDetach(): _cameras.clear()
OnDetach(cams, sc) == [cams EXCEPT ![sc] = <<>>]

\* [...this.scenes].flatMap(scene => scene.cameras), from scene i on
RECURSIVE FlatMapCameras(_, _, _)
FlatMapCameras(scs, cams, i) ==
    IF i > Len(scs) THEN <<>>
    ELSE cams[scs[i]] \o FlatMapCameras(scs, cams, i + 1)

\* One step of the stable sort with the comparator (a, b) => a.order - b.order
RECURSIVE InsertByOrder(_, _, _)
InsertByOrder(q, c, ord) ==
    IF q = <<>> THEN <<c>>
    ELSE IF ord[q[Len(q)]] - ord[c] <= 0 THEN Append(q, c)
    ELSE Append(InsertByOrder(SubSeq(q, 1, Len(q) - 1), c, ord), q[Len(q)])

\* .sort((a, b) => a.order - b.order)
RECURSIVE SortByOrder(_, _)
SortByOrder(q, ord) ==
    IF q = <<>> THEN <<>>
    ELSE InsertByOrder(SortByOrder(SubSeq(q, 1, Len(q) - 1), ord), q[Len(q)], ord)

\* getRenderCameras without the filter on camera.enabled.
GetRenderCameras_NoFilter(scs, cams, en, ord) ==
    SortByOrder(FlatMapCameras(scs, cams, 1), ord)

\* SceneManager.getRenderCameras()
GetRenderCameras(scs, cams, en, ord) ==
    SortByOrder(SelectSeq(FlatMapCameras(scs, cams, 1), LAMBDA c : en[c]), ord)

\* No scene is attached and no camera constructed; a camera is constructed
\* with enabled = true and order = 0.
InitScene ==
    /\ sceneCameras = [sc \in Scenes |-> <<>>]
    /\ scenes = <<>>
    /\ enabled = [c \in Cameras |-> TRUE]
    /\ order = [c \in Cameras |-> 0]
    /\ addThrew = FALSE

\* addCamera(c) is called on scene sc: by the constructor of c, on the scene
\* it was given, or by other code on any scene.
AddCameraCall(sc, c) ==
    LET r == AddCamera(sceneCameras, sc, c) IN
    /\ sceneCameras' = r.cameras
    /\ addThrew' = r.threw
    /\ UNCHANGED <<scenes, enabled, order, notScene>>

\* removeCamera(c) is called on scene sc.
RemoveCameraCall(sc, c) ==
    /\ sceneCameras' = RemoveCamera(sceneCameras, sc, c)
    /\ UNCHANGED <<scenes, enabled, order, addThrew, notScene>>

\* sceneManager.addScene(sc); the onAttach of Scene does nothing.
AddSceneCall(sc) ==
    /\ scenes' = SetAdd(scenes, sc)
    /\ UNCHANGED <<sceneCameras, enabled, order, addThrew, notScene>>

\* sceneManager.removeScene(sc): scene.onDetach(), then scenes.delete(scene).
RemoveSceneCall(sc) ==
    /\ sceneCameras' = OnDetach(sceneCameras, sc)
    /\ scenes' = SetDelete(scenes, sc)
    /\ UNCHANGED <<enabled, order, addThrew, notScene>>

\* Some code assigns camera.enabled.
SetEnabled(c, b) ==
    /\ enabled' = [enabled EXCEPT ![c] = b]
    /\ UNCHANGED <<sceneCameras, scenes, order, addThrew, notScene>>

\* Some code assigns camera.order.
SetOrder(c, n) ==
    /\ order' = [order EXCEPT ![c] = n]
    /\ UNCHANGED <<sceneCameras, scenes, enabled, addThrew, notScene>>
\* ------------------------------------------------------------------ Engine

\* The ids requestAnimationFrame hands out; an id is free again once its
\* callback has run or was cancelled and the engine no longer holds it.
MaxRaf == 3
RafIds == 1..MaxRaf

\* _animationFrameId === null
NoFrameId == 0

\* What an overridden Scene.update does in one frame: nothing, or it flips
\* the enabled flag of one camera.
SceneUpdates == {"none"} \cup Cameras

\* The engine, the cameras' flags, the pipeline manager and the renderers'
\* state as one value, for the operators below.
EW == [isRunning |-> isRunning, animationFrameId |-> animationFrameId,
       rafPending |-> rafPending, log |-> tickLog, enabled |-> enabled,
       pm |-> PM, ubuf |-> uniformBuffer, buffers |-> buffers, f |-> frame]

\* SceneManager.update(deltaTime): scene.update of every attached scene.
SceneManagerUpdate(w, u) ==
    LET w1 == [w EXCEPT !.log = Append(@, "update")] IN
    IF u \in Cameras /\ (\E i \in DOMAIN scenes : scenes[i] = CameraScene(u))
    THEN [w1 EXCEPT !.enabled[u] = ~@]
    ELSE w1

\* RenderSystem.renderFrame(cameras), called from _frame.
FrameRender(w, cams) ==
    LET r == RenderFrameOp(w.pm, w.ubuf, w.buffers, cams, 1 - w.f.tick) IN
    [w EXCEPT !.pm = r.pm, !.ubuf = r.ubuf, !.buffers = r.buffers, !.f = r.f,
              !.log = Append(@, "renderFrame")]

\* A _frame that reads the camera list before it updates the scenes.
Frame_CamerasFirst(w, u) ==
    LET cams == GetRenderCameras(scenes, sceneCameras, w.enabled, order)
        w1 == SceneManagerUpdate([w EXCEPT !.log = Append(@, "getRenderCameras")], u) IN
    FrameRender(w1, cams)

\* Engine._frame(): update, getRenderCameras, renderFrame.
Frame(w, u) ==
    LET w1 == SceneManagerUpdate(w, u)
        cams == GetRenderCameras(scenes, sceneCameras, w1.enabled, order) IN
    FrameRender([w1 EXCEPT !.log = Append(@, "getRenderCameras")], cams)

\* requestAnimationFrame(this._tick): the smallest free id.
RequestAnimationFrame(w) ==
    LET free == RafIds \ (w.rafPending \cup {w.animationFrameId})
        id == CHOOSE i \in free : \A j \in free : i <= j IN
    [w EXCEPT !.rafPending = @ \cup {id}, !.animationFrameId = id,
              !.log = Append(@, "requestAnimationFrame")]

\* Engine._tick(). An exception thrown by renderFrame leaves _tick before
\* requestAnimationFrame.
Tick(w, u) ==
    LET w0 == [w EXCEPT !.log = <<>>] IN
    IF ~w0.isRunning THEN w0
    ELSE LET w1 == Frame(w0, u) IN
         IF w1.f.threw THEN w1 ELSE RequestAnimationFrame(w1)

\* Engine.start()
Start(w, u) ==
    IF w.isRunning THEN w
    ELSE Tick([w EXCEPT !.isRunning = TRUE], u)

\* Engine.stop()
Stop(w) ==
    LET w1 == IF w.animationFrameId # NoFrameId
              THEN [w EXCEPT !.rafPending = @ \ {w.animationFrameId},
                             !.animationFrameId = NoFrameId]
              ELSE w IN
    [w1 EXCEPT !.isRunning = FALSE]

SetEW(w) ==
    /\ Len(w.pm.builds) <= MaxBuilds
    /\ SetPM(w.pm)
    /\ uniformBuffer' = w.ubuf
    /\ buffers' = w.buffers
    /\ frame' = w.f
    /\ catchers' = catchers \cup w.f.caught
    /\ enabled' = w.enabled
    /\ isRunning' = w.isRunning
    /\ animationFrameId' = w.animationFrameId
    /\ rafPending' = w.rafPending
    /\ tickLog' = w.log
    /\ UNCHANGED <<calls, sceneCameras, scenes, order, addThrew, notEngine>>

InitEngine ==
    /\ isRunning = FALSE
    /\ animationFrameId = NoFrameId
    /\ rafPending = {}
    /\ tickLog = <<>>

\* The scenes the program sets up before it starts the engine: each scene
\* constructs its cameras, each camera adding itself to the scene it is given,
\* and is attached to the scene manager.
BuildScenes ==
    LET c1 == AddCamera(sceneCameras, "sceneA", "camA").cameras
        c2 == AddCamera(c1, "sceneB", "camB").cameras
        c3 == AddCamera(c2, "sceneA", "camU").cameras
        c4 == AddCamera(c3, "sceneA", "camP").cameras IN
    /\ scenes = <<>> /\ ~isRunning /\ frame.encoders = 0
    /\ sceneCameras' = c4
    /\ scenes' = SetAdd(SetAdd(scenes, "sceneA"), "sceneB")
    /\ UNCHANGED <<enabled, order, addThrew, notScene>>

\* Some code calls engine.start(); u is what the scenes' update does in the
\* frame that start() runs.
StartCall(u) ==
    /\ Cardinality(rafPending) + 1 < MaxRaf
    /\ SetEW(Start(EW, u))

\* Some code calls engine.stop() between two frames.
StopCall ==
    /\ SetEW(Stop(EW))

\* The browser runs the animation-frame callback id, which is _tick.
RafFire(id, u) ==
    /\ id \in rafPending
    /\ SetEW(Tick([EW EXCEPT !.rafPending = @ \ {id}], u))

\* The engine methods an overridden Scene.update may call while the frame it
\* belongs to is running: stop(), start(), or stop() followed by start().
EngineCalls == {"stop", "start", "restart"}

\* The log of a _tick that ran inside start(), after the log of the update
\* that called start().
PrependLog(w, pre) == [w EXCEPT !.log = pre \o <<"start">> \o @]

\* SceneManager.update(deltaTime) with a scene whose update calls the engine.
\* A start() that finds the engine stopped runs a whole _tick inside the
\* update; the scenes' update in that inner frame calls nothing.
UpdateCalling(w, e) ==
    LET w1 == SceneManagerUpdate(w, "none") IN
    CASE e = "stop" -> [Stop(w1) EXCEPT !.log = Append(@, "stop")]
      [] e = "start" -> [Start(w1, "none") EXCEPT !.log = Append(w1.log, "start")]
      [] e = "restart" -> PrependLog(Start(Stop(w1), "none"), Append(w1.log, "stop"))

\* Engine._frame() with such an update. An exception thrown by the inner
\* frame leaves start(), the update and this _frame.
FrameCalling(w, e) ==
    LET w1 == UpdateCalling(w, e)
        cams == GetRenderCameras(scenes, sceneCameras, w1.enabled, order) IN
    IF e = "restart" /\ w1.f.threw THEN w1
    ELSE FrameRender([w1 EXCEPT !.log = Append(@, "getRenderCameras")], cams)

\* Engine._tick() with such an update.
TickCalling(w, e) ==
    LET w0 == [w EXCEPT !.log = <<>>] IN
    IF ~w0.isRunning THEN w0
    ELSE LET w1 == FrameCalling(w0, e) IN
         IF w1.f.threw THEN w1 ELSE RequestAnimationFrame(w1)

\* The browser runs the animation-frame callback id, and the scenes' update
\* in that frame calls the engine.
RafFireCalling(id, e) ==
    /\ id \in rafPending
    /\ Cardinality(rafPending) + 1 < MaxRaf
    /\ SetEW(TickCalling([EW EXCEPT !.rafPending = @ \ {id}], e))
\* ---------------------------------------------------------- specifications

InitFallback ==
    /\ modules = <<>>
    /\ moduleCount = 0
    /\ fallbackShaderHandles = <<>>
    /\ fallbackShaderCount = 0
    /\ realIds = {}
    /\ fb = [called |-> FALSE, type |-> "", original |-> 0, ret |-> NullResult,
             threw |-> FALSE]
    /\ nf = [called |-> FALSE, arg |-> [kind |-> "null", state |-> Unloaded],
             result |-> ""]

Init ==
    /\ InitPM /\ InitRender /\ InitAsset /\ InitFallback /\ InitRegistry
    /\ InitShader /\ InitRenderers /\ InitScene /\ InitEngine

Next ==
    \/ \E k \in Keys : CallGetOrCreateAsync(k)
    \/ \E k \in Keys : CallGetOrCreate(k)
    \/ \E k \in Keys : CallRemove(k)
    \/ CallClear
    \/ \E b \in 1..MaxBuilds : BuildResolve(b)
    \/ \E b \in 1..MaxBuilds : BuildReject(b)

NextRender ==
    \/ \E cs \in CameraLists : RenderFrame(cs)
    \/ \E r \in Renderers : DisposeCall(r)
    \/ \E b \in 1..MaxBuilds : BuildResolve(b)
    \/ \E b \in 1..MaxBuilds : BuildReject(b)

SpecRender == Init /\ [][NextRender]_vars

NextAsset ==
    \/ \E a \in Assets : EnsureReadyCall(a)
    \/ \E a \in Assets : LoadCall(a)
    \/ \E as \in AssetLists : PrepareCall(as)
    \/ \E a \in Assets : DiscardCPUData(a)
    \/ \E p \in 1..MaxProcs, o \in {"ok", "notok", "reject"} : FetchSettle(p, o)
    \/ \E p \in 1..MaxProcs, o \in {"ok", "reject"} : TextSettle(p, o)
    \/ MicrotaskStep

SpecAsset == Init /\ [][NextAsset]_vars

\* Start-up: load() calls made by asset owners and the engine's prepare.
NextPrepare ==
    \/ \E a \in Assets : LoadCall(a)
    \/ \E as \in AssetLists : PrepareFirst(as)
    \/ \E p \in DOMAIN procs, o \in {"ok", "notok", "reject"} : FetchSettle(p, o)
    \/ \E p \in DOMAIN procs, o \in {"ok", "reject"} : TextSettle(p, o)
    \/ MicrotaskStep

SpecPrepare == Init /\ [][NextPrepare]_vars

\* The event loop runs every queued microtask, and runs a task that is ready
\* once the microtask queue is empty.
FairSpecAsset ==
    /\ SpecAsset
    /\ WF_vars(MicrotaskStep)
    /\ WF_vars(\E p \in 1..MaxProcs, o \in {"ok", "notok", "reject"} : FetchSettle(p, o))
    /\ WF_vars(\E p \in 1..MaxProcs, o \in {"ok", "reject"} : TextSettle(p, o))

NextFallback ==
    \/ \E id \in HandleIds : RealCreateShaderModule(id)
    \/ \E id \in HandleIds : FallbackShaderCall(id)
    \/ \E t \in AssetTypeArgs, id \in HandleIds : FallbackOtherCall(t, id)
    \/ \E x \in AssetArgs : NeedsFallbackCall(x)

SpecFallback == Init /\ [][NextFallback]_vars

NextRegistry ==
    \E asset \in Instances : RegisterCall(asset)

SpecRegistry == Init /\ [][NextRegistry]_vars

NextShader ==
    \/ \E t \in ShaderTypes, pa \in ShaderPaths, given \in BOOLEAN :
          LoadShaderCall(t, pa, given)
    \/ \E p \in 1..MaxLoads, ok \in BOOLEAN : CodeSettle(p, ok)

SpecShader == Init /\ [][NextShader]_vars

NextRenderers ==
    \E p \in Priorities : RegisterRendererCall(p)

SpecRenderers == Init /\ [][NextRenderers]_vars
NextScene ==
    \/ \E sc \in Scenes, c \in Cameras : AddCameraCall(sc, c)
    \/ \E sc \in Scenes, c \in Cameras : RemoveCameraCall(sc, c)
    \/ \E sc \in Scenes : AddSceneCall(sc)
    \/ \E sc \in Scenes : RemoveSceneCall(sc)
    \/ \E c \in Cameras, b \in BOOLEAN : SetEnabled(c, b)
    \/ \E c \in Cameras, n \in Orders : SetOrder(c, n)

SpecScene == Init /\ [][NextScene]_vars
NextEngine ==
    \/ BuildScenes
    \/ \E u \in SceneUpdates : StartCall(u)
    \/ StopCall
    \/ \E id \in RafIds, u \in SceneUpdates : RafFire(id, u)
    \/ \E b \in 1..MaxBuilds : BuildResolve(b)
    \/ \E b \in 1..MaxBuilds : BuildReject(b)

SpecEngine == Init /\ [][NextEngine]_vars

\* The engine loop with scenes whose update may call start() and stop().
NextReentrant ==
    \/ BuildScenes
    \/ \E u \in SceneUpdates : StartCall(u)
    \/ StopCall
    \/ \E id \in RafIds, u \in SceneUpdates : RafFire(id, u)
    \/ \E b \in 1..MaxBuilds : BuildResolve(b)
    \/ \E b \in 1..MaxBuilds : BuildReject(b)
    \/ \E id \in RafIds, e \in EngineCalls : RafFireCalling(id, e)

SpecReentrant == Init /\ [][NextReentrant]_vars
Spec == Init /\ [][Next]_vars

\* ------------------------------------------------ claims on PipelineManager

\* What the promise returned to the caller of calls[i] has resolved to:
\* an async function returning the pending promise adopts that promise.
Resolved(i) ==
    IF calls[i].promise = NoPromise THEN calls[i].pipeline
    ELSE builds[calls[i].promise].value

\* No remove(key), clear() or getOrCreate(key) among calls i+1 .. j-1.
Undisturbed(i, j) ==
    \A m \in (i + 1)..(j - 1) :
        ~(\/ calls[m].op = "clear"
          \/ (calls[m].op \in {"remove", "getOrCreate"} /\ calls[m].key = calls[i].key))

\* calls[i] found its key unseen (not cached, not marked in flight, no earlier
\* build of it still running), and calls[j] is a later getOrCreateAsync for
\* that key made while the build calls[i] started was still running, with no
\* remove, clear or getOrCreate of the key between the two.
SameBurst(i, j) ==
    /\ i < j
    /\ calls[i].op = "getOrCreateAsync" /\ calls[j].op = "getOrCreateAsync"
    /\ calls[i].key = calls[j].key
    /\ calls[i].started /\ calls[i].inflight = {}
    /\ calls[i].promise \in calls[j].inflight
    /\ Undisturbed(i, j)

\* C1: of M getOrCreateAsync calls for one unseen key made before the first
\* build completes, only the first invokes the builder; every later one gets
\* the promise of that build and so resolves to the same pipeline object.
C1_ConcurrentCallsShareOneBuild ==
    \A i, j \in DOMAIN calls :
        SameBurst(i, j) =>
            /\ ~calls[j].started
            /\ calls[j].promise = calls[i].promise
            /\ Resolved(j) = Resolved(i)

\* C1 witness: three calls in one burst whose shared build has produced a
\* pipeline that all three resolve to.
C1_Witness ==
    /\ Len(calls) >= 3
    /\ SameBurst(1, 2) /\ SameBurst(1, 3)
    /\ Resolved(1) # NoPipeline
    /\ Resolved(2) = Resolved(1) /\ Resolved(3) = Resolved(1)

\* C2: has(key) holds only while the key is cached or a build of it is still
\* running, so after a failed build has(key) is false again and the next
\* getOrCreateAsync(key) invokes the builder.
C2_FailedBuildClearsMarker ==
    \A k \in Keys :
        Has(PM, k) => (pipelines[k] # NoPipeline \/ Running(PM, k) # {})



\* C24: has(key) is true exactly when the key is cached or a build of it is
\* running, and get(key) returns a pipeline exactly when the key is cached.
C24_HasAndGet ==
    \A k \in Keys :
        /\ Has(PM, k) <=> (pipelines[k] # NoPipeline \/ Running(PM, k) # {})
        /\ Get(PM, k) # NoPipeline <=> pipelines[k] # NoPipeline
\* calls[i] and calls[j] are getOrCreate calls for one key that only the
\* synchronous path has built, with no remove of the key and no clear between.
SyncPair(i, j) ==
    /\ i < j
    /\ calls[i].op = "getOrCreate" /\ calls[j].op = "getOrCreate"
    /\ calls[i].key = calls[j].key
    /\ \A b \in DOMAIN builds : builds[b].key # calls[i].key
    /\ \A m \in (i + 1)..(j - 1) :
          ~(\/ calls[m].op = "clear"
            \/ (calls[m].op = "remove" /\ calls[m].key = calls[i].key))

\* C25: a getOrCreate call that finds its key cached returns the cached
\* pipeline and creates nothing; one that does not creates exactly one
\* pipeline, caches it under the key and returns it. So of the synchronous
\* calls for one key, only the first builds and all return the same object.
C25_SyncGetOrCreate ==
    /\ [][ (Len(calls') = Len(calls) + 1 /\ calls'[Len(calls')].op = "getOrCreate")
           => LET c == calls'[Len(calls')] IN
              IF pipelines[c.key] # NoPipeline
              THEN /\ c.pipeline = pipelines[c.key] /\ ~c.started
                   /\ created' = created /\ pipelines' = pipelines
              ELSE /\ c.started /\ created' = created + 1
                   /\ c.pipeline = created'
                   /\ pipelines' = [pipelines EXCEPT ![c.key] = c.pipeline] ]_vars
    /\ [](\A i, j \in DOMAIN calls :
            SyncPair(i, j) => ~calls[j].started /\ calls[j].pipeline = calls[i].pipeline)

\* C25 witness: three getOrCreate calls for one key, the first of which built
\* the pipeline that all three returned.
C25_Witness ==
    /\ Len(calls) = 3
    /\ SyncPair(1, 2) /\ SyncPair(2, 3)
    /\ calls[1].started /\ ~calls[2].started /\ ~calls[3].started
    /\ calls[1].pipeline # NoPipeline
    /\ calls[3].pipeline = calls[1].pipeline
    /\ created = 1

\* The step is a remove(k) or a clear() call.
Evicts(k) ==
    /\ Len(calls') = Len(calls) + 1
    /\ LET c == calls'[Len(calls')] IN
       c.op = "clear" \/ (c.op = "remove" /\ c.key = k)

\* C32: a pipeline that get(key) returns stays the cached pipeline of the key
\* until remove(key) or clear() is called, and getOrCreate and
\* getOrCreateAsync calls for the key return it meanwhile, also when
\* getOrCreate is called while an asynchronous build of the key is in flight.
C32_CachedPipelineStable ==
    [][ /\ \A k \in Keys :
              (Get(PM, k) # NoPipeline /\ ~Evicts(k)) => pipelines'[k] = Get(PM, k)
        /\ (Len(calls') = Len(calls) + 1
              /\ calls'[Len(calls')].op \in {"getOrCreate", "getOrCreateAsync"}
              /\ Get(PM, calls'[Len(calls')].key) # NoPipeline)
           => calls'[Len(calls')].pipeline = Get(PM, calls'[Len(calls')].key) ]_vars

\* calls[i] is a remove(k) or clear() after which no getOrCreate or
\* getOrCreateAsync for k has been called.
LastEviction(i, k) ==
    /\ calls[i].op = "clear" \/ (calls[i].op = "remove" /\ calls[i].key = k)
    /\ \A m \in (i + 1)..Len(calls) :
          ~(calls[m].op \in {"getOrCreate", "getOrCreateAsync"} /\ calls[m].key = k)

\* C33: after remove(key) or clear(), get(key) is null until the key is
\* requested again, and no key ever has two asynchronous builds running.
C33_EvictionHolds ==
    \A k \in Keys :
        /\ (\E i \in DOMAIN calls : LastEviction(i, k)) => Get(PM, k) = NoPipeline
        /\ Cardinality(Running(PM, k)) <= 1
\* ----------------------------------------------------- claims on rendering

RenderKey == PipelineKey(PreferredFormat)

Range(q) == {q[i] : i \in DOMAIN q}

\* The draws a frame recorded for camera c, and those of c's whole scene.
DrawsOf(f, c) == SelectSeq(f.draws, LAMBDA d : d.camera = c)
SceneDraws(c) == DrawRenderables(c, SceneRenderables(CameraScene(c)), 1)

\* C3: a render call that finds its key uncached after a build of it has failed,
\* with no build of it still running, starts a new build.
C3_RenderRetriesFailedBuild ==
    [][ ( /\ frame'.tick # frame.tick
          /\ frame'.dispatched # <<>>
          /\ pipelines[RenderKey] = NoPipeline
          /\ Running(PM, RenderKey) = {}
          /\ \E b \in DOMAIN builds :
                builds[b].key = RenderKey /\ builds[b].status = "rejected" )
        => Len(builds') > Len(builds) ]_vars

C10_OneEncoderOneSubmit ==
    frame.encoders = 1 =>
        frame.submits = 1 /\ frame.processedAtSubmit = Len(frame.cameras)

\* C19: no build that failed is left without a rejection handler, and every
\* renderFrame call made after a build has failed returns without throwing
\* and submits its command buffer.
C19_FailureContained ==
    /\ [](\A b \in DOMAIN builds : builds[b].status = "rejected" => b \in catchers)
    /\ [][ ( /\ frame'.tick # frame.tick
              /\ \E b \in DOMAIN builds : builds[b].status = "rejected" )
            => (~frame'.threw /\ frame'.submits = 1) ]_vars

\* C20: in a renderFrame call that found the target of some camera
\* unresolvable, the cameras skipped are exactly those with such a target, none
\* of them is passed to a renderer, every other camera of the list is, and the
\* frame is submitted.
C20_UnresolvableTargetSkipped ==
    (frame.encoders = 1 /\ frame.skipped # <<>>) =>
        /\ \A c \in Range(frame.cameras) :
              /\ c \in Range(frame.skipped) <=> ~CreateRenderContext(c).ok
              /\ c \in Range(frame.dispatched) <=> CreateRenderContext(c).ok
        /\ frame.submits = 1

\* C22: every camera carries a renderer from its construction on, so that in
\* every renderFrame call each camera whose target resolves is passed to its
\* renderer, a defined one, exactly once, and the call does not throw.
C22_EveryCameraHasRenderer ==
    frame.encoders = 1 =>
        /\ ~frame.threw
        /\ \A c \in Range(frame.cameras) :
              CreateRenderContext(c).ok =>
                  /\ CameraRenderer(c) \in Renderers
                  /\ Cardinality({i \in DOMAIN frame.dispatched :
                                      frame.dispatched[i] = c}) = 1
\* How often camera c occurs in the list q.
Occurrences(q, c) == Cardinality({i \in DOMAIN q : q[i] = c})

\* C30: a render call that finds its pipeline cached begins one render pass
\* and ends it, and records one draw per renderable of the camera's scene, in
\* the scene's order, indexed exactly for the meshes with an index buffer; a
\* render call that finds no pipeline cached begins no pass and records no
\* draw. No render call submits: the frame's one submit follows the last
\* camera.
C30_OnePassOneDrawPerRenderable ==
    /\ [][ frame'.tick # frame.tick =>
           \A c \in Range(frame'.dispatched) :
               LET rbs == SceneRenderables(CameraScene(c))
                   ds == DrawsOf(frame', c) IN
               IF Get(PM, RenderKey) # NoPipeline
               THEN /\ Occurrences(frame'.passes, c) = 1
                    /\ Occurrences(frame'.ended, c) = 1
                    /\ Len(ds) = Len(rbs)
                    /\ \A i \in DOMAIN rbs :
                          /\ ds[i].renderable = rbs[i]
                          /\ ds[i].indexed <=> HasIndexBuffer(rbs[i])
               ELSE /\ Occurrences(frame'.passes, c) = 0
                    /\ Occurrences(frame'.ended, c) = 0
                    /\ ds = <<>> ]_vars
    /\ [](/\ frame.submits <= 1
          /\ frame.submits = 1 => frame.processedAtSubmit = Len(frame.cameras)
          /\ Len(frame.draws) > 0 => frame.passes = frame.ended)

\* C30 witness: a frame over camA and camB with the pipeline cached: two
\* passes, cube (indexed) and tri for camA's scene, tri for camB's, one submit.
C30_Witness ==
    /\ frame.cameras = <<"camA", "camB">>
    /\ frame.passes = <<"camA", "camB">> /\ frame.ended = <<"camA", "camB">>
    /\ Len(frame.draws) = 3
    /\ frame.draws[1].indexed /\ ~frame.draws[2].indexed
    /\ frame.submits = 1
\* C31: a renderer's uniform buffer is created only by a render call of a
\* frame that found the pipeline cached, only when the renderer holds none,
\* and one buffer per such renderer; a buffer held is replaced by nothing but
\* the null of dispose.
C31_UniformBufferOnce ==
    [][ /\ \A r \in Renderers :
              (uniformBuffer'[r] # uniformBuffer[r] /\ uniformBuffer'[r] # NoBuffer) =>
                  /\ uniformBuffer[r] = NoBuffer
                  /\ Get(PM, RenderKey) # NoPipeline
                  /\ frame'.tick # frame.tick
                  /\ \E c \in Range(frame'.passes) : CameraRenderer(c) = r
        /\ buffers' - buffers =
              Cardinality({r \in Renderers : /\ uniformBuffer[r] = NoBuffer
                                             /\ uniformBuffer'[r] # NoBuffer}) ]_vars

\* C31 witness: r1 created its buffer before r2 did, and the last frame drew
\* camA with r1 again, creating none.
C31_Witness ==
    /\ uniformBuffer["r1"] = 1 /\ uniformBuffer["r2"] = 2
    /\ buffers = 2
    /\ frame.cameras = <<"camA">> /\ frame.passes = <<"camA">>
\* The matrices in the uniform buffer bound by draw k when the submitted
\* command buffer executes: every writeBuffer of the frame was issued, and
\* took effect, before the submit, so they are those of the last write of the
\* frame to that buffer.
MatricesRead(k) ==
    LET same == {j \in DOMAIN frame.writes :
                    frame.writes[j].bufferOf = frame.writes[k].bufferOf}
        last == CHOOSE j \in same : \A m \in same : m <= j IN
    [model |-> frame.writes[last].model, view |-> frame.writes[last].view,
     projection |-> frame.writes[last].projection]

\* C36: in a submitted frame every draw reads the model matrix of its own
\* renderable and the view and projection matrices of its own camera.
C36_DrawsReadOwnMatrices ==
    frame.submits = 1 =>
        \A k \in DOMAIN frame.draws :
            MatricesRead(k) = [model |-> frame.draws[k].renderable,
                               view |-> frame.draws[k].camera,
                               projection |-> frame.draws[k].camera]
\* -------------------------------------------------------- claims on assets

Terminal == {Ready, Failed}

\* The load() calls for asset a that went on to fetch.
Fetches(a) ==
    {p \in DOMAIN procs :
        /\ procs[p].fn = "load" /\ procs[p].asset = a
        /\ ~(procs[p].pc = "resolved" /\ procs[p].io = "none")}

\* C4: an ensureReady call that found its asset Loading returns, and finds the
\* asset Ready or Failed when it does: the load it waits for completes.
C4_WaitingCallerReturns ==
    \A p \in 1..MaxProcs :
        (p \in DOMAIN procs /\ procs[p].fn = "ensureReady" /\ procs[p].pc = "polling")
            ~> (/\ p \in DOMAIN procs
                /\ procs[p].pc = "done"
                /\ procs[p].observed \in Terminal)

\* C5: at most one load() of an asset fetches, and every ensureReady call on a
\* loadable asset returns and finds the asset in its terminal state.
C5_OneLoadAllCallersReturn ==
    /\ [](\A a \in Assets : Cardinality(Fetches(a)) <= 1)
    /\ \A p \in 1..MaxProcs :
        (p \in DOMAIN procs /\ procs[p].fn = "ensureReady" /\ HasLoad(procs[p].asset))
            ~> (/\ p \in DOMAIN procs
                /\ procs[p].pc = "done"
                /\ procs[p].observed \in Terminal
                /\ procs[p].observed = state[procs[p].asset])

\* C6: an asset's state changes only from Unloaded to Loading and from Loading
\* to Ready or Failed.
C6_StateMovesForward ==
    [][ \A a \in Assets :
          state'[a] # state[a] =>
              \/ state[a] = Unloaded /\ state'[a] = Loading
              \/ state[a] = Loading /\ state'[a] \in Terminal ]_vars

\* C6 witness: one asset loaded and another failed, with calls made on both
\* after they settled.
C6_Witness ==
    /\ state["s1"] = Ready /\ state["s2"] = Failed
    /\ \E p, q \in DOMAIN procs :
          /\ procs[p].asset = "s1" /\ procs[p].fn = "load"
          /\ procs[p].pc = "resolved" /\ procs[p].io = "none"
          /\ procs[q].asset = "s2" /\ procs[q].fn = "ensureReady"
          /\ procs[q].pc = "done" /\ procs[q].parent = NoProc

\* The procs a step created.
NewProcs == DOMAIN procs' \ DOMAIN procs

\* C12: a load() call made while the asset is not Unloaded returns successfully
\* at once, starts no fetch and leaves state, error and payload alone; made on
\* an Unloaded asset it sets Loading and fetches; when the fetched text has
\* arrived the asset is Ready and getCPUData returns that text.
C12_LoadOnlyFromUnloaded ==
    [][ /\ \A p \in NewProcs :
              procs'[p].fn = "load" =>
                  LET a == procs'[p].asset IN
                  IF state[a] # Unloaded
                  THEN /\ procs'[p].pc = "resolved" /\ procs'[p].io = "none"
                       /\ state'[a] = state[a]
                       /\ error'[a] = error[a]
                       /\ GetCPUData(sourceCode', a) = GetCPUData(sourceCode, a)
                  ELSE /\ procs'[p].pc = "awaitFetch"
                       /\ state'[a] = Loading
        /\ \A p \in DOMAIN procs :
              ( /\ procs[p].fn = "load" /\ procs[p].pc = "texted"
                /\ procs[p].io = "ok" /\ procs'[p].pc # "texted" )
              => /\ procs'[p].pc = "resolved"
                 /\ state'[procs[p].asset] = Ready
                 /\ GetCPUData(sourceCode', procs[p].asset) = FetchedText ]_vars

\* C12 witness (scenario A): s1 was fetched and is Ready with the fetched text
\* as its payload, and a second load() of it has returned without fetching.
C12_Witness ==
    /\ state["s1"] = Ready
    /\ GetCPUData(sourceCode, "s1") = FetchedText
    /\ \E p, q \in DOMAIN procs :
          /\ p < q
          /\ procs[p].fn = "load" /\ procs[p].asset = "s1"
          /\ procs[p].pc = "resolved" /\ procs[p].io = "ok"
          /\ procs[q].fn = "load" /\ procs[q].asset = "s1"
          /\ procs[q].pc = "resolved" /\ procs[q].io = "none"

\* C13: when the fetch of a load() fails (the request fails, the response is
\* not ok, or its text cannot be read) the load's promise rejects, the asset is
\* Failed and its error is that failure; and at all times an asset has an
\* error exactly when it is Failed.
C13_FailureRecordedAndRaised ==
    /\ [](\A a \in Assets : (error[a] # Undefined) <=> (state[a] = Failed))
    /\ [][ \A p \in DOMAIN procs :
              ( /\ procs[p].fn = "load" /\ procs[p].pc \in {"fetched", "texted"}
                /\ procs[p].io # "ok" /\ procs'[p].pc # procs[p].pc )
              => /\ procs'[p].pc = "rejected"
                 /\ state'[procs[p].asset] = Failed
                 /\ error'[procs[p].asset] = procs[p].io ]_vars

\* C13 witness (scenario B): the response for s2 was not ok; s2 is Failed with
\* that error and its load() has rejected.
C13_Witness ==
    /\ state["s2"] = Failed /\ error["s2"] = "notok"
    /\ \E p \in DOMAIN procs :
          /\ procs[p].fn = "load" /\ procs[p].asset = "s2"
          /\ procs[p].pc = "rejected" /\ procs[p].io = "notok"

\* The load() call that ensureReady call p made, if it made one.
LoadOf(pp, p) == {q \in DOMAIN pp : pp[q].fn = "load" /\ pp[q].parent = p}

\* C14: no ensureReady call rejects; one made on a Ready or Failed asset
\* returns at once and calls no load(); one that awaits its load() returns
\* normally when the load settles, and if the load failed the asset is then
\* Failed with its error recorded.
C14_EnsureReadyNeverRaises ==
    /\ [](\A p \in DOMAIN procs :
            procs[p].fn = "ensureReady" => procs[p].pc # "rejected")
    /\ [][ /\ \A p \in NewProcs :
                ( procs'[p].fn = "ensureReady"
                  /\ state[procs'[p].asset] \in Terminal )
                => /\ procs'[p].pc = "done"
                   /\ procs'[p].observed = state[procs'[p].asset]
                   /\ LoadOf(procs', p) = {}
          /\ \A p \in DOMAIN procs :
                ( /\ procs[p].fn = "ensureReady" /\ procs[p].pc = "awaitLoad"
                  /\ procs'[p].pc # "awaitLoad" )
                => /\ procs'[p].pc = "done"
                   /\ (\E q \in LoadOf(procs, p) : procs[q].pc = "rejected")
                        => /\ state'[procs[p].asset] = Failed
                           /\ error'[procs[p].asset] # Undefined ]_vars

\* C14 witness: an ensureReady call whose load() rejected has returned, and a
\* later ensureReady call on the Failed asset returned without a load().
C14_Witness ==
    \E p, q \in DOMAIN procs :
        /\ p < q
        /\ procs[p].fn = "ensureReady" /\ procs[p].pc = "done"
        /\ \E l \in LoadOf(procs, p) : procs[l].pc = "rejected"
        /\ procs[q].fn = "ensureReady" /\ procs[q].asset = procs[p].asset
        /\ procs[q].pc = "done" /\ procs[q].observed = Failed
        /\ LoadOf(procs, q) = {}

\* C15: a prepare call never rejects; it calls ensureReady on every asset of
\* its list at once, so that every loadable asset of the list has left Unloaded
\* when the call returns its promise; and it has completed only when every
\* asset of its list is Ready or Failed or has no load capability.
C15_PrepareWaitsForAll ==
    /\ [](\A p \in DOMAIN procs :
            procs[p].fn = "prepare" =>
                /\ procs[p].pc # "rejected"
                /\ procs[p].pc = "done" =>
                      \A i \in DOMAIN procs[p].list :
                          \/ state[procs[p].list[i]] \in Terminal
                          \/ ~HasLoad(procs[p].list[i]))
    /\ [][ \A p \in NewProcs :
              procs'[p].fn = "prepare" =>
                  /\ Cardinality(Children(AW', p)) = Len(procs'[p].list)
                  /\ \A i \in DOMAIN procs'[p].list :
                        HasLoad(procs'[p].list[i])
                            => state'[procs'[p].list[i]] # Unloaded ]_vars

\* C15 witness: a prepare over two loadable assets has completed after the
\* load of one failed and the load of the other succeeded.
C15_Witness ==
    \E p \in DOMAIN procs :
        /\ procs[p].fn = "prepare" /\ procs[p].pc = "done"
        /\ procs[p].list = <<"s1", "s2">>
        /\ state["s1"] = Failed /\ state["s2"] = Ready
        /\ \A q \in Children(AW, p) : LoadOf(procs, q) # {}

\* C23: an ensureReady call for an Unloaded asset that has no load() has
\* returned by the time the call is back, having started nothing; the asset is
\* still Unloaded, with no error and no payload.
C23_NoLoadLeftUnloaded ==
    \A p \in DOMAIN procs :
        (procs[p].fn = "ensureReady" /\ ~HasLoad(procs[p].asset)) =>
            LET a == procs[p].asset IN
            /\ procs[p].pc = "done"
            /\ procs[p].observed = Unloaded
            /\ Children(AW, p) = {}
            /\ state[a] = Unloaded
            /\ error[a] = Undefined
            /\ GetCPUData(sourceCode, a) = Null

\* C23 witness: ensureReady was called for the asset without load(), directly
\* and from prepare.
C23_Witness ==
    /\ \E p \in DOMAIN procs :
          procs[p].fn = "ensureReady" /\ procs[p].asset = "m1"
              /\ procs[p].parent = NoProc
    /\ \E p \in DOMAIN procs :
          procs[p].fn = "ensureReady" /\ procs[p].asset = "m1"
              /\ procs[p].parent # NoProc
\* C28: in every state of a ShaderAsset, discardCPUData leaves state and error
\* as they are, getCPUData returns null after it, and a second discard changes
\* nothing more.
C28_DiscardIdempotent ==
    \A a \in Assets :
        HasLoad(a) =>
            LET w1 == Discard(AW, a) IN
            /\ w1.state = state /\ w1.error = error
            /\ w1.procs = procs /\ w1.microtasks = microtasks
            /\ GetCPUData(w1.sourceCode, a) = Null
            /\ Discard(w1, a) = w1

\* C28 witness: the payload of a Ready asset was discarded; the asset is still
\* Ready and getCPUData returns null.
C28_Witness ==
    /\ state["s1"] = Ready /\ GetCPUData(sourceCode, "s1") = Null
    /\ state["s2"] = Loading
\* ------------------------------------------------------ claims on fallback

\* C7: a module stored under the handle of a real shader stays the module the
\* real shader was compiled to: no fallback request stores under that id.
C7_FallbackKeepsRealModules ==
    \A id \in realIds : modules[id].code = "real"

\* C8: needsFallback returns true exactly for an asset that is Failed, Unloaded
\* or absent.
C8_NeedsFallbackIff ==
    nf.called =>
        (nf.result = "true"
            <=> (~Truthy(nf.arg) \/ nf.arg.state \in {Failed, Unloaded}))

\* C17: a getFallbackResource(Shader, h) call for an original id that was
\* asked for before returns the handle returned then and creates no shader
\* module; a call for a new id creates one module and remembers its handle.
C17_FallbackMemoized ==
    [][ ( fb' # fb /\ fb'.type = "Shader" ) =>
            LET key == FallbackKey(fb'.original) IN
            /\ ~fb'.threw
            /\ \A k \in DOMAIN fallbackShaderHandles :
                  /\ k \in DOMAIN fallbackShaderHandles'
                  /\ fallbackShaderHandles'[k] = fallbackShaderHandles[k]
            /\ IF key \in DOMAIN fallbackShaderHandles
               THEN /\ fb'.ret = fallbackShaderHandles[key]
                    /\ moduleCount' = moduleCount
               ELSE /\ fallbackShaderHandles'[key] = fb'.ret
                    /\ moduleCount' = moduleCount + 1 ]_vars

\* C17 witness: after fallbacks were made for two originals, a repeated request
\* for the first returned its handle, with two modules created in all.
C17_Witness ==
    /\ fb.called /\ fb.type = "Shader" /\ fb.original = 0
    /\ DOMAIN fallbackShaderHandles = {FallbackKey(0), FallbackKey(1)}
    /\ fallbackShaderHandles[FallbackKey(0)] = 1
    /\ fallbackShaderHandles[FallbackKey(1)] = 2
    /\ fb.ret = 1
    /\ moduleCount = 2

\* The asset types for which the manager has a substitute resource.
HasSubstitute(type) == type = "Shader"

\* C18: a getFallbackResource call for a type that has no substitute throws
\* instead of returning a value.
C18_UnsupportedFallbackThrows ==
    (fb.called /\ ~HasSubstitute(fb.type)) => fb.threw

\* The original handle ids for which a fallback shader was requested.
Requested == {id \in HandleIds : FallbackKey(id) \in DOMAIN fallbackShaderHandles}

\* C38: originals with different ids have fallback handles with different
\* ids, the fallback counter has advanced by one for each original requested,
\* and every fallback handle handed out has a module in ShaderModuleManager.
C38_FallbackHandlesInjective ==
    /\ \A i, j \in Requested :
          i # j => fallbackShaderHandles[FallbackKey(i)] # fallbackShaderHandles[FallbackKey(j)]
    /\ fallbackShaderCount = Cardinality(Requested)
    /\ Cardinality(DOMAIN fallbackShaderHandles) = Cardinality(Requested)
    /\ \A i \in Requested : fallbackShaderHandles[FallbackKey(i)] \in DOMAIN modules
    /\ (fb.called /\ fb.type = "Shader") =>
          /\ fb.ret = fallbackShaderHandles[FallbackKey(fb.original)]
          /\ fb.ret \in DOMAIN modules

\* C38 witness: fallbacks were requested for the originals 0 and 2, which got
\* the handles 1 and 2, each with a module.
C38_Witness ==
    /\ Requested = {0, 2}
    /\ fallbackShaderHandles[FallbackKey(0)] = 1
    /\ fallbackShaderHandles[FallbackKey(2)] = 2
    /\ fb.called /\ fb.type = "Shader" /\ fb.original = 2 /\ fb.ret = 2
    /\ {1, 2} \subseteq DOMAIN modules
\* ------------------------------------------------------ claims on registry

\* The first register call made with the id of registerLog[i]'s argument.
FirstRegister(i) ==
    CHOOSE k \in DOMAIN registerLog :
        /\ registerLog[k].arg.id = registerLog[i].arg.id
        /\ \A m \in 1..(k - 1) : registerLog[m].arg.id # registerLog[i].arg.id

\* C11: every register call returns the instance the first call with that id
\* was made with, and that instance, not a later caller's, is the one stored.
C11_RegisterIdempotent ==
    \A i \in DOMAIN registerLog :
        /\ registerLog[i].ret = registerLog[FirstRegister(i)].arg
        /\ AssetGet(assets, registerLog[i].arg.id) = registerLog[FirstRegister(i)].arg

\* C11 witness: a second object with a registered id was passed to register,
\* which returned the first.
C11_Witness ==
    \E i, j \in DOMAIN registerLog :
        /\ i < j
        /\ registerLog[i].arg.id = registerLog[j].arg.id
        /\ registerLog[i].arg # registerLog[j].arg
        /\ registerLog[j].ret = registerLog[i].arg

\* C37: no step removes or replaces an entry of the registry, every entry is
\* stored under the id of its asset, and get(id) of a registered id returns
\* the instance that was registered first under it, in every later state.
C37_RegistryOnlyGrows ==
    /\ [][ \A id \in AssetIds :
              AssetGet(assets, id) # NoInstance =>
                  AssetGet(assets', id) = AssetGet(assets, id) ]_vars
    /\ [](\A id \in AssetIds :
            /\ AssetGet(assets, id) # NoInstance => AssetGet(assets, id).id = id
            /\ \A i \in DOMAIN registerLog :
                  registerLog[i].arg.id = id =>
                      AssetGet(assets, id) = registerLog[FirstRegister(i)].arg)

\* C37 witness: both ids are registered, and after the second id was stored a
\* different object with the first id was passed to register.
C37_Witness ==
    /\ \A id \in AssetIds : AssetGet(assets, id) # NoInstance
    /\ \E i, j, k \in DOMAIN registerLog :
          /\ i < j /\ j < k
          /\ registerLog[i].arg.id # registerLog[j].arg.id
          /\ registerLog[k].arg.id = registerLog[i].arg.id
          /\ registerLog[k].arg # registerLog[i].arg
          /\ AssetGet(assets, registerLog[i].arg.id) = registerLog[i].arg
\* ------------------------------------------------ claims on ShaderManager

\* C16: when every loadShader call had to await its source (none was given the
\* code), the calls for one (type, path) create at most one GPU shader module,
\* and every such call that has returned has returned that module.
C16_OneModulePerKey ==
    (\A p \in DOMAIN shaderLoads : shaderLoads[p].from # "argument") =>
        /\ \A i, j \in DOMAIN shaderModulesMade :
              shaderModulesMade[i] = shaderModulesMade[j] => i = j
        /\ \A p, q \in DOMAIN shaderLoads :
              ( /\ shaderLoads[p].type = shaderLoads[q].type
                /\ shaderLoads[p].path = shaderLoads[q].path
                /\ shaderLoads[p].pc = "done" /\ shaderLoads[q].pc = "done" )
              => shaderLoads[p].ret = shaderLoads[q].ret


\* ------------------------------------------------ claims on the renderer list

\* C21: after every registerRenderer call the renderer list is in ascending
\* order of priority, and renderers of equal priority stand in the order of
\* their registration.
C21_SortedByPriorityStable ==
    \A i, j \in DOMAIN renderers :
        i < j => /\ renderers[i].priority <= renderers[j].priority
                 /\ renderers[i].priority = renderers[j].priority
                       => renderers[i].n < renderers[j].n

\* C21 witness: priorities 5, 1 and 5 were registered in this order; the list
\* is [1, 5, 5] with the two renderers of priority 5 in registration order.
C21_Witness ==
    renderers = <<[n |-> 2, priority |-> 1], [n |-> 1, priority |-> 5],
                  [n |-> 3, priority |-> 5]>>

\* ------------------------------------------------------- claims on scenes

\* C26: addCamera on a scene that is not the camera's scene throws and leaves
\* every camera set as it was, so each camera in a scene's camera set has that
\* scene as its scene.
C26_MismatchedCameraRejected ==
    /\ \A sc \in Scenes, c \in Cameras :
          CameraScene(c) # sc =>
              LET r == AddCamera(sceneCameras, sc, c) IN
              r.threw /\ r.cameras = sceneCameras
    /\ \A sc \in Scenes : \A c \in Range(sceneCameras[sc]) : CameraScene(c) = sc

\* C26 witness: the last addCamera call was rejected, on a scene that holds
\* cameras of its own.
C26_Witness ==
    /\ addThrew
    /\ Len(sceneCameras["sceneA"]) = 2
    /\ Len(sceneCameras["sceneB"]) = 1

\* The cameras in the camera sets of the scenes attached.
AttachedCameras ==
    UNION {Range(sceneCameras[sc]) : sc \in Range(scenes)}

\* C27: getRenderCameras returns each enabled camera of the attached scenes
\* once and nothing else, in ascending order of camera.order.
C27_EnabledCamerasByOrder ==
    LET r == GetRenderCameras(scenes, sceneCameras, enabled, order) IN
    /\ Range(r) = {c \in AttachedCameras : enabled[c]}
    /\ \A i, j \in DOMAIN r : i < j => r[i] # r[j] /\ order[r[i]] <= order[r[j]]

\* C27 witness: both scenes are attached; sceneA holds camA, of order 1, and the
\* disabled camU, sceneB holds camB, of order 0, and camP's scene was removed
\* after camP was added; the result is [camB, camA].
C27_Witness ==
    /\ scenes = <<"sceneA", "sceneB">>
    /\ sceneCameras["sceneA"] = <<"camA", "camU">>
    /\ sceneCameras["sceneB"] = <<"camB">>
    /\ ~enabled["camU"] /\ enabled["camA"] /\ enabled["camB"]
    /\ order["camA"] = 1 /\ order["camB"] = 0
    /\ GetRenderCameras(scenes, sceneCameras, enabled, order) = <<"camB", "camA">>

\* ----------------------------------------------------- claims on the engine

\* C29: a tick that renders has updated the scenes first, hands renderFrame
\* the camera list that getRenderCameras yields after that update, and asks
\* for the next animation frame last, when renderFrame has returned; so a
\* callback is pending only after a frame that was finished and submitted.
C29_UpdateRenderSchedule ==
    /\ [][ frame'.tick # frame.tick =>
           /\ SubSeq(tickLog', 1, 3) = <<"update", "getRenderCameras", "renderFrame">>
           /\ frame'.cameras = GetRenderCameras(scenes', sceneCameras', enabled', order')
           /\ IF frame'.threw
              THEN Len(tickLog') = 3 /\ animationFrameId' \notin rafPending'
              ELSE /\ tickLog' = <<"update", "getRenderCameras", "renderFrame",
                                   "requestAnimationFrame">>
                   /\ frame'.submits = 1
                   /\ animationFrameId' \in rafPending' ]_vars
    /\ [](rafPending # {} =>
             /\ frame.encoders = 1 /\ ~frame.threw /\ frame.submits = 1
             /\ tickLog[Len(tickLog)] = "requestAnimationFrame")

\* C29 witness: the update of the last tick disabled camP, the frame was
\* rendered for the three cameras left and submitted, and the next tick is
\* scheduled.
C29_Witness ==
    /\ ~enabled["camP"]
    /\ frame.cameras = <<"camA", "camU", "camB">>
    /\ frame.submits = 1
    /\ Len(frame.dispatched) = 2
    /\ isRunning /\ rafPending = {animationFrameId}

\* C34: whatever start() and stop() calls are made, between frames or from
\* inside a scene update, at most one animation-frame callback of the engine
\* is pending, and one callback renders at most one frame.
C34_OnePendingCallback ==
    /\ Cardinality(rafPending) <= 1
    /\ Occurrences(tickLog, "renderFrame") <= 1

\* C35: once stop() was called, no scene update and no renderFrame follows
\* before the next start(), neither in the rest of the running tick nor in a
\* later step, and a start() that finds the engine stopped leaves the next
\* tick scheduled.
C35_StopHaltsLoop ==
    /\ [](\A i, j \in DOMAIN tickLog :
            (i < j /\ tickLog[i] = "stop" /\ tickLog[j] \in {"update", "renderFrame"})
                => \E m \in (i + 1)..(j - 1) : tickLog[m] = "start")
    /\ [][ (~isRunning /\ ~isRunning') =>
              /\ frame' = frame
              /\ tickLog' = tickLog \/ tickLog' = <<>> ]_vars
    /\ [][ (~isRunning /\ isRunning') => animationFrameId' \in rafPending' ]_vars
====
